---------------------------- MODULE Spec2Model ----------------------------
(***************************************************************************)
(* AIDataQualityGuardian: the quality evaluation pipeline.                 *)
(*                                                                         *)
(*   QualityRules.check      src/src/dq/quality_rules.py                   *)
(*   AnomalyDetector.detect  src/src/dq/anomaly_detector.py                *)
(*   Validators.validate     src/src/dq/validators.py                      *)
(*   AIAnalyzer.analyze_all  src/src/dq/ai_analyzer.py                     *)
(*   ScoreCalculator         src/src/dq/score_calculator.py                *)
(*   TestBuilder.build_tests src/src/tests_generator/test_builder.py       *)
(*   process_dashboard       src/src/main.py                               *)
(*                                                                         *)
(* Python values are tagged records: None is [t |-> "None"], a number n is *)
(* [t |-> "int", n |-> n].  A dict is the sequence of its items in         *)
(* insertion order.  A Python string is a TLA+ string; lower(), replace()  *)
(* and the `in` substring test are computed character by character.  An    *)
(* f-string is the tuple of its template and its arguments.                *)
(*                                                                         *)
(* The thresholds of the engines compare floats (mean * 3, mean * 0.3,     *)
(* avg * 5, 2 * pstdev).  Over the integer series of this model each       *)
(* comparison is computed exactly, cross-multiplied by the length of the   *)
(* numeric subset so that no division is needed.                           *)
(***************************************************************************)
EXTENDS Integers, Sequences, FiniteSets, TLC

VARIABLES
    pc,                 \* position in process_dashboard / main
    dashboard,          \* process_dashboard's argument name
    metrics,            \* process_dashboard's argument metrics (a dict)
    metrics_given,      \* FALSE when that argument is None, not a dict
    expected_ranges,    \* process_dashboard's argument expected_ranges
    ai_enabled,         \* AIAnalyzer.ai_enabled
    rule_issues,        \* main.py:83
    anomaly_issues,     \* main.py:87
    validation_issues,  \* main.py:91
    all_issues,         \* main.py:94
    entry,              \* main.py:98, the dict process_dashboard returns
    test_code,          \* build_tests' list of generated functions (last entry)
    tests,              \* build_tests' result: dashboard -> generated source
    calls,              \* the calls recorded so far, with their results
    config,             \* main's environment: USE_TABLEAU_API, rest.enabled, ...
    dashboards,         \* the dashboards main's processing loop runs over
    results             \* main.py:115, the entries appended so far

vars == <<pc, dashboard, metrics, metrics_given, expected_ranges, ai_enabled, rule_issues,
          anomaly_issues, validation_issues, all_issues, entry, test_code,
          tests, calls, config, dashboards, results>>

---------------------------------------------------------------------------
(* Bounds of the model                                                     *)

\* longest series of a single-metric dashboard
MaxLen == 6
\* longest series of each metric of a two-metric dashboard
MaxPairLen == 2
\* longest issue list handed directly to add_scores / build_tests, and how
\* many times over it is repeated
MaxIssues == 3
MaxRepeat == 2
\* engine calls made in a row on one instance
MaxCalls == 3

---------------------------------------------------------------------------
(* Python values                                                           *)

None == [t |-> "None"]
Num(n) == [t |-> "int", n |-> n]

\* isinstance(v, (int, float))
IsNumber(v) == v.t = "int"

RECURSIVE Sum(_)
Sum(s) == IF s = <<>> THEN 0 ELSE Head(s) + Sum(Tail(s))

RECURSIVE MaxOf(_)
MaxOf(s) == IF Len(s) = 1 THEN s[1]
            ELSE LET m == MaxOf(Tail(s)) IN IF s[1] >= m THEN s[1] ELSE m

Abs(x) == IF x < 0 THEN -x ELSE x

\* numeric_values = [v for v in values if isinstance(v, (int, float))],
\* as the sequence of the numbers themselves
NumericValues(values) ==
    LET nums == SelectSeq(values, IsNumber)
    IN  [i \in 1..Len(nums) |-> nums[i].n]

\* set(numeric_values)
SetOf(s) == {s[i] : i \in 1..Len(s)}

---------------------------------------------------------------------------
(* Python strings                                                          *)

\* the lower-case form of one character
LowerChar(c) ==
    CASE c = "A" -> "a" [] c = "B" -> "b" [] c = "C" -> "c" [] c = "D" -> "d"
      [] c = "E" -> "e" [] c = "F" -> "f" [] c = "G" -> "g" [] c = "H" -> "h"
      [] c = "I" -> "i" [] c = "J" -> "j" [] c = "K" -> "k" [] c = "L" -> "l"
      [] c = "M" -> "m" [] c = "N" -> "n" [] c = "O" -> "o" [] c = "P" -> "p"
      [] c = "Q" -> "q" [] c = "R" -> "r" [] c = "S" -> "s" [] c = "T" -> "t"
      [] c = "U" -> "u" [] c = "V" -> "v" [] c = "W" -> "w" [] c = "X" -> "x"
      [] c = "Y" -> "y" [] c = "Z" -> "z" [] OTHER -> c

Char(s, i) == SubSeq(s, i, i)

RECURSIVE LowerFrom(_, _)
LowerFrom(s, i) ==
    IF i > Len(s) THEN "" ELSE LowerChar(Char(s, i)) \o LowerFrom(s, i + 1)

\* str.lower()
Lower(s) == LowerFrom(s, 1)

RECURSIVE ReplaceFrom(_, _, _, _)
ReplaceFrom(s, old, new, i) ==
    IF i > Len(s) THEN ""
    ELSE (IF Char(s, i) = old THEN new ELSE Char(s, i)) \o ReplaceFrom(s, old, new, i + 1)

\* str.replace(old, new) for a one-character old
Replace(s, old, new) == ReplaceFrom(s, old, new, 1)

\* sub in s

---------------------------------------------------------------------------
(* Dicts: a sequence of items [name, ...] in insertion order               *)

Keys(d) == {d[i].name : i \in 1..Len(d)}

\* d[key], for a key of d
Lookup(d, key) == d[CHOOSE i \in 1..Len(d) : d[i].name = key]

\* an issue dict
Issue(metric, issue, details) ==
    [metric |-> metric, issue |-> issue, details |-> details]

\* issue.get(key, default)
Get(issue, key, default) ==
    IF key \in DOMAIN issue THEN issue[key] ELSE default

Contains(sub, s) ==
    \E i \in 1..(Len(s) - Len(sub) + 1) : SubSeq(s, i, i + Len(sub) - 1) = sub

\* kw in s.lower()
InLower(kw, s) == Contains(kw, Lower(s))

\* s.lower().replace(" ", "_")
SafeName(s) == Replace(Lower(s), " ", "_")

\* The strings the dispatchers of the scorer, the annotator and the test
\* builder meet in this model, and the keywords they look for.  InLower and
\* SafeName are evaluated once for each of them and looked up afterwards.
Keywords == {"spike", "drop", "outlier", "null", "zero", "negative", "no variation"}

KnownIssueNames ==
    { "Null / Zero values", "No variation", "Negative values",
      "Extremely large value detected", "Sudden spike detected",
      "Sudden drop detected", "Outlier detected", "Non-numeric value",
      "Out-of-range values", "Insufficient data points",
      "", "NULL SPIKE", "Drop to zero", "No Variation", "Negative outlier",
      "Schema drift" }

KnownNames ==
    { "Sales Overview", "Marketing Performance", "unknown_dashboard", "metric",
      "Site Visits", "cost", "Revenue", "Orders", "Margin", "SiteVisits",
      "Conversions", "Cost", "site_visits" }

KeywordsOf == [s \in KnownIssueNames |-> {kw \in Keywords : InLower(kw, s)}]

SafeNameOf == [s \in KnownNames |-> SafeName(s)]

\* kw in issue.get("issue", "").lower()
IssueHas(issue, kw) ==
    LET name == Get(issue, "issue", "")
    IN  IF name \in KnownIssueNames /\ kw \in Keywords
        THEN kw \in KeywordsOf[name]
        ELSE InLower(kw, name)

\* s.lower().replace(" ", "_"), looked up
Safe(s) == IF s \in KnownNames THEN SafeNameOf[s] ELSE SafeName(s)

\* the statistics a details string quotes: round(mean, 2), round(stdev, 2) are
\* kept as the exact sum, sum of squares and count they are computed from
Stats(nums) ==
    [sum |-> Sum(nums), sumsq |-> Sum([i \in 1..Len(nums) |-> nums[i] * nums[i]]),
     n |-> Len(nums)]

---------------------------------------------------------------------------
(* QualityRules.check                                                      *)

\* Rule 1: any(v is None or v == 0 for v in values)
HasNullOrZero(values) ==
    \E i \in 1..Len(values) : values[i] = None \/ (IsNumber(values[i]) /\ values[i].n = 0)

\* HasNoVariation counting the raw values instead of the numeric ones
HasNoVariationRawLength(values) ==
    LET numeric_values == NumericValues(values)
    IN  Len(values) > 1 /\ Cardinality(SetOf(numeric_values)) = 1

\* Rule 2: len(numeric_values) > 1 and len(set(numeric_values)) == 1
HasNoVariation(values) ==
    LET numeric_values == NumericValues(values)
    IN  Len(numeric_values) > 1 /\ Cardinality(SetOf(numeric_values)) = 1

\* Rule 3: any((v is not None and v < 0) for v in values)
HasNegative(values) ==
    \E i \in 1..Len(values) : values[i] # None /\ values[i].n < 0

\* HasExtremeSpike against the magnitude of the average (abs(avg) * 5)
HasExtremeSpikeOfMagnitude(values) ==
    LET numeric_values == NumericValues(values)
    IN  /\ numeric_values # <<>>
        /\ MaxOf(numeric_values) * Len(numeric_values) > Abs(Sum(numeric_values)) * 5

\* Rule 4: numeric_values non-empty, avg = sum / len, max(numeric_values) > avg * 5
HasExtremeSpike(values) ==
    LET numeric_values == NumericValues(values)
    IN  /\ numeric_values # <<>>
        /\ MaxOf(numeric_values) * Len(numeric_values) > Sum(numeric_values) * 5

\* the body of check's loop: the issues appended for one metric
CheckMetric(metric_name, values) ==
    (IF HasNullOrZero(values)
     THEN <<Issue(metric_name, "Null / Zero values",
                  <<"{metric_name} contains null/zero values: {values}",
                    metric_name, values>>)>>
     ELSE <<>>)
    \o
    (IF HasNoVariation(values)
     THEN <<Issue(metric_name, "No variation",
                  <<"{metric_name} has constant values: {values}",
                    metric_name, values>>)>>
     ELSE <<>>)
    \o
    (IF HasNegative(values)
     THEN <<Issue(metric_name, "Negative values",
                  <<"{metric_name} contains negative numbers: {values}",
                    metric_name, values>>)>>
     ELSE <<>>)
    \o
    (IF HasExtremeSpike(values)
     THEN <<Issue(metric_name, "Extremely large value detected",
                  <<"{metric_name} has extreme spikes: {values}",
                    metric_name, values>>)>>
     ELSE <<>>)

RECURSIVE CheckLoop(_, _)
CheckLoop(items, acc) ==
    IF items = <<>> THEN acc
    ELSE CheckLoop(Tail(items),
                   acc \o CheckMetric(Head(items).name, Head(items).values))

\* the list of the previous call kept (a class attribute, a mutable default)
CheckStaleIssues ==
    IF calls # <<>> /\ calls[2].engine = "check" THEN calls[2].result ELSE <<>>

\* issues = [] at the start of check
CheckNewIssues == <<>>

check(m) == CheckLoop(m, CheckNewIssues)

\* QualityRules.check_all
check_all(m) == check(m)

\* check raises on one metric: rule 3 compares v < 0 for every v that is not
\* None (TypeError unless v is a number); rule 4, entered when numeric_values
\* is not empty, divides by its length (ZeroDivisionError) and takes its max
\* (ValueError on an empty list)
CheckRaises(values) ==
    LET numeric_values == NumericValues(values)
    IN  \/ \E i \in 1..Len(values) : values[i] # None /\ ~IsNumber(values[i])
        \/ (numeric_values # <<>> /\ Len(numeric_values) = 0)

---------------------------------------------------------------------------
(* AnomalyDetector.detect                                                  *)

\* IsSpike with the mean taken over the values before the last one
IsSpikeAgainstEarlier(nums) ==
    nums[Len(nums)] * (Len(nums) - 1) > (Sum(nums) - nums[Len(nums)]) * 3

\* last_value > mean * 3, with mean = sum / n
IsSpike(nums) == nums[Len(nums)] * Len(nums) > Sum(nums) * 3

\* last_value < mean * 0.3
IsDrop(nums) == 10 * nums[Len(nums)] * Len(nums) < 3 * Sum(nums)

\* n * n * pvariance(nums)
ScaledVariance(nums) ==
    Len(nums) * Sum([i \in 1..Len(nums) |-> nums[i] * nums[i]]) - Sum(nums) * Sum(nums)

\* IsOutlier without the stdev > 0 guard and with >= for >
IsOutlierInclusive(nums) ==
    LET d == Abs(Len(nums) * nums[Len(nums)] - Sum(nums))
    IN  d * d >= 4 * ScaledVariance(nums)

\* IsOutlier with statistics.stdev (divide by n - 1) in place of pstdev
IsOutlierSampleStdev(nums) ==
    LET d == Abs(Len(nums) * nums[Len(nums)] - Sum(nums))
    IN  /\ ScaledVariance(nums) > 0
        /\ (Len(nums) - 1) * d * d > 4 * Len(nums) * ScaledVariance(nums)

\* A Python float has 53 significant bits: 52 after the leading one
FractionBits == 52

\* the e with 2^e <= p / q < 2^(e + 1), for p, q > 0
RECURSIVE FloorLog2(_, _)
FloorLog2(p, q) ==
    IF p >= 2 * q THEN FloorLog2(p, 2 * q) + 1
    ELSE IF p < q THEN FloorLog2(2 * p, q) - 1
    ELSE 0

\* 2^k mod m
RECURSIVE Pow2Mod(_, _)
Pow2Mod(k, m) == IF k = 0 THEN 1 % m ELSE (2 * Pow2Mod(k - 1, m)) % m

\* 2^j for the j that matter: beyond 2^20 a larger factor decides nothing
\* that 2^20 does not, the numerators it multiplies being below the length
\* of a series
RECURSIVE Pow2(_)
Pow2(j) == IF j <= 0 THEN 1 ELSE IF j >= 20 THEN 1048576 ELSE 2 * Pow2(j - 1)

\* float(p / q) for p, q > 0, the quotient rounded to the nearest float, ties
\* to even.  In units of 2^(-k) the quotient is an integer plus r / q; the
\* float is the quotient plus a / (q * 2^k); odd tells whether that integer
\* is odd
Rounded(p, q) ==
    LET k == FractionBits - FloorLog2(p, q)
        r == (p * Pow2Mod(k, q)) % q
        odd == (p * Pow2Mod(k, 2 * q)) % (2 * q) >= q
    IN  [k |-> k, r |-> r, odd |-> odd,
         a |-> IF 2 * r < q THEN 0 - r
               ELSE IF 2 * r > q THEN q - r
               ELSE IF odd THEN q - r ELSE 0 - r]

\* num / den rounded to the nearest integer, ties to the even one when the
\* integer the count starts from is even (odd = FALSE), for num >= 0
RoundHalfEven(num, den, odd) ==
    LET fl == num \div den
        rem == num % den
    IN  IF 2 * rem < den THEN fl
        ELSE IF 2 * rem > den THEN fl + 1
        ELSE IF ((IF odd THEN 1 ELSE 0) + fl) % 2 = 1 THEN fl + 1 ELSE fl

\* abs(last_value - mean) > 2 * stdev for a series on which the two sides
\* are equal as real numbers, both d / n with d = |n * last_value - sum|.
\* statistics.mean returns float(sum / n) and statistics.pstdev the float
\* nearest to the root of the exact variance, so the right side is
\* float(d / n); the left side is the float difference of last_value and
\* the rounded mean.  When the mean's last bit weighs no less than that of
\* d / n the difference is exact and carries the mean's rounding error;
\* otherwise the difference is rounded once more.
ExceedsAtTie(nums) ==
    LET n == Len(nums)
        s == Sum(nums)
        last == nums[n]
        d == Abs(n * last - s)
        mean == Rounded(Abs(s), n)
        right == Rounded(d, n)
        \* the sign of (last - mean) * mean: the rounded mean is further
        \* from zero by mean.a, which shortens the left side when t = 1
        t == IF (n * last - s > 0) = (s > 0) THEN 1 ELSE 0 - 1
        j == Abs(mean.k - right.k)
    IN  IF s = 0 THEN FALSE
        ELSE IF mean.k <= right.k
        THEN (0 - t) * mean.a * Pow2(j) > right.a
        ELSE RoundHalfEven(2 * n * Pow2(j) + right.r * Pow2(j) - t * mean.a,
                           n * Pow2(j), right.odd)
             > RoundHalfEven(2 * n * Pow2(j) + right.r * Pow2(j),
                             n * Pow2(j), right.odd)

\* stdev > 0 and abs(last_value - mean) > 2 * stdev.  When the two sides
\* differ as real numbers the comparison is that of their squares,
\* multiplied by n * n; when they are equal the floats decide
IsOutlier(nums) ==
    LET d == Abs(Len(nums) * nums[Len(nums)] - Sum(nums))
    IN  /\ ScaledVariance(nums) > 0
        /\ \/ d * d > 4 * ScaledVariance(nums)
           \/ (d * d = 4 * ScaledVariance(nums) /\ ExceedsAtTie(nums))

\* the body of detect's loop
DetectMetric(metric_name, values) ==
    LET numeric_values == NumericValues(values)
        last_value == numeric_values[Len(numeric_values)]
    IN  IF Len(numeric_values) < 2 THEN <<>>
        ELSE
          (IF IsSpike(numeric_values)
           THEN <<Issue(metric_name, "Sudden spike detected",
                        <<"Value {last_value} is > 3x above mean ({round(mean, 2)})",
                          last_value, Stats(numeric_values)>>)>>
           ELSE <<>>)
          \o
          (IF IsDrop(numeric_values)
           THEN <<Issue(metric_name, "Sudden drop detected",
                        <<"Value {last_value} is < 30% of mean ({round(mean, 2)})",
                          last_value, Stats(numeric_values)>>)>>
           ELSE <<>>)
          \o
          (IF IsOutlier(numeric_values)
           THEN <<Issue(metric_name, "Outlier detected",
                        <<"{last_value} differs from mean ({round(mean, 2)}) by > 2 standard deviations",
                          last_value, Stats(numeric_values)>>)>>
           ELSE <<>>)

RECURSIVE DetectLoop(_, _)
DetectLoop(items, acc) ==
    IF items = <<>> THEN acc
    ELSE DetectLoop(Tail(items),
                    acc \o DetectMetric(Head(items).name, Head(items).values))

\* issues = [] at the start of detect
DetectNewIssues == <<>>

detect(m) == DetectLoop(m, DetectNewIssues)

\* DetectRaises without the "continue" of anomaly_detector.py:20-21
DetectRaisesUnguarded(values) == Len(NumericValues(values)) = 0

\* detect raises on one metric: past the "continue" for fewer than two
\* numeric values, statistics.mean, statistics.pstdev and numeric_values[-1]
\* each raise on an empty list
DetectRaises(values) ==
    LET numeric_values == NumericValues(values)
    IN  ~(Len(numeric_values) < 2) /\ Len(numeric_values) = 0

---------------------------------------------------------------------------
(* Validators.validate                                                     *)

\* _validate_min_length's default min_len
MinLen == 3

RECURSIVE ValidateNumericLoop(_, _, _)
ValidateNumericLoop(metric_name, values, acc) ==
    IF values = <<>> THEN acc
    ELSE ValidateNumericLoop(metric_name, Tail(values),
           IF ~IsNumber(Head(values))
           THEN Append(acc, Issue(metric_name, "Non-numeric value",
                                  <<"Value '{v}' is not a number.", Head(values)>>))
           ELSE acc)

_validate_numeric(metric_name, values) ==
    ValidateNumericLoop(metric_name, values, <<>>)

\* OutOfRange with the bounds excluded
OutOfRangeExclusive(v, min_expected, max_expected) ==
    ~(min_expected < v /\ v < max_expected)

\* not (min_expected <= v <= max_expected)
OutOfRange(v, min_expected, max_expected) ==
    ~(min_expected <= v /\ v <= max_expected)

\* ValidateRangeLoop passing over the values that are not numbers
RECURSIVE ValidateRangeLoopSkipNone(_, _, _, _)
ValidateRangeLoopSkipNone(metric_name, values, expected_range, acc) ==
    LET min_expected == expected_range[1]
        max_expected == expected_range[2]
        v == Head(values)
    IN  IF values = <<>> THEN acc
        ELSE ValidateRangeLoopSkipNone(metric_name, Tail(values), expected_range,
               IF IsNumber(v) /\ OutOfRange(v.n, min_expected, max_expected)
               THEN Append(acc, Issue(metric_name, "Out-of-range values",
                      <<"Value {v} outside expected range {min_expected}-{max_expected}",
                        v, min_expected, max_expected>>))
               ELSE acc)

RECURSIVE ValidateRangeLoop(_, _, _, _)
ValidateRangeLoop(metric_name, values, expected_range, acc) ==
    LET min_expected == expected_range[1]
        max_expected == expected_range[2]
        v == Head(values)
    IN  IF values = <<>> THEN acc
        ELSE ValidateRangeLoop(metric_name, Tail(values), expected_range,
               IF ~IsNumber(v)
               THEN Append(acc, Issue(metric_name, "Out-of-range values",
                      <<"Invalid value '{v}' cannot be compared to expected range {min_expected}-{max_expected}",
                        v, min_expected, max_expected>>))
               ELSE IF OutOfRange(v.n, min_expected, max_expected)
               THEN Append(acc, Issue(metric_name, "Out-of-range values",
                      <<"Value {v} outside expected range {min_expected}-{max_expected}",
                        v, min_expected, max_expected>>))
               ELSE acc)

_validate_range(metric_name, values, expected_range) ==
    ValidateRangeLoop(metric_name, values, expected_range, <<>>)

_validate_min_length(metric_name, values) ==
    IF Len(values) < MinLen
    THEN <<Issue(metric_name, "Insufficient data points",
                 <<"{metric_name} has only {len(values)} values (min required: {min_len})",
                   metric_name, Len(values), MinLen>>)>>
    ELSE <<>>

\* expected_ranges and metric_name in expected_ranges
HasRange(ranges, metric_name) ==
    ranges.given /\ ranges.items # <<>> /\ metric_name \in Keys(ranges.items)

\* ValidateMetric with rule 2 run before rule 1
ValidateMetricRangeFirst(metric_name, values, ranges) ==
    (IF HasRange(ranges, metric_name)
     THEN _validate_range(metric_name, values,
                          Lookup(ranges.items, metric_name).range)
     ELSE <<>>)
    \o _validate_numeric(metric_name, values)
    \o _validate_min_length(metric_name, values)

\* the body of validate's loop
ValidateMetric(metric_name, values, ranges) ==
    _validate_numeric(metric_name, values)
    \o (IF HasRange(ranges, metric_name)
        THEN _validate_range(metric_name, values,
                             Lookup(ranges.items, metric_name).range)
        ELSE <<>>)
    \o _validate_min_length(metric_name, values)

RECURSIVE ValidateLoop(_, _, _)
ValidateLoop(items, ranges, acc) ==
    IF items = <<>> THEN acc
    ELSE ValidateLoop(Tail(items), ranges,
           acc \o ValidateMetric(Head(items).name, Head(items).values, ranges))

\* issues = [] at the start of validate
ValidateNewIssues == <<>>

validate(m, ranges) == ValidateLoop(m, ranges, ValidateNewIssues)

\* validate raises on one metric: _validate_range compares every value that
\* passed the isinstance test with the bounds (TypeError for None)
ValidateRaises(metric_name, values, ranges) ==
    /\ HasRange(ranges, metric_name)
    /\ \E i \in 1..Len(values) : ~(~IsNumber(values[i])) /\ values[i] = None

---------------------------------------------------------------------------
(* AIAnalyzer                                                              *)

\* what the external completion call can do for one issue: raise (caught,
\* _ai_generate returns None), answer blank text (strip() leaves ""), or
\* answer with text
AIOutcomes == {"raise", "empty", "text"}

\* analyze_issue calls the service only if self.ai_enabled
ServiceAnswers(enabled) == IF enabled THEN AIOutcomes ELSE {"not called"}

\* _ai_generate(issue): None is the empty sequence, text a one-element one
_ai_generate(issue, outcome) ==
    CASE outcome = "raise" -> <<>>
      [] outcome = "empty" -> <<"">>
      [] outcome = "text" -> <<"Check the upstream join for duplicated rows.">>
      [] OTHER -> <<>>

_fallback_generate(issue) ==
    LET metric == Get(issue, "metric", "")
    IN  IF IssueHas(issue, "spike")
        THEN metric \o " shows an unexpected spike - likely caused by duplicated rows or incorrect aggregation."
        ELSE IF IssueHas(issue, "drop")
        THEN metric \o " dropped sharply - may indicate missing data or broken upstream pipeline."
        ELSE IF IssueHas(issue, "null") \/ IssueHas(issue, "zero")
        THEN metric \o " contains null/zero values - check ETL validity or missing joins."
        ELSE IF IssueHas(issue, "no variation")
        THEN metric \o " shows no variation - check if data refresh is working."
        ELSE IF IssueHas(issue, "negative")
        THEN metric \o " contains negative values - likely a logical or transformation error."
        ELSE "Potential data quality issue detected. Investigate upstream data sources."

\* what the external call did for one issue, as calls records it
ServiceCall(outcome) == [engine |-> "openai.Completion.create", result |-> outcome]

\* analyze_issue testing "insight is not None" where the code tests "insight"
analyze_issue_not_none(issue, enabled, outcome) ==
    LET insight == _ai_generate(issue, outcome)
    IN  IF enabled /\ insight # <<>>
        THEN insight[1]
        ELSE _fallback_generate(issue)

\* analyze_issue(issue), the external call ending as outcome
analyze_issue(issue, enabled, outcome) ==
    LET insight == _ai_generate(issue, outcome)
    IN  IF enabled /\ insight # <<>> /\ insight[1] # ""
        THEN insight[1]
        ELSE _fallback_generate(issue)

\* SetInsight building a new dict of metric, issue and ai_insight
SetInsightRebuilt(issue, text) ==
    [k \in {"metric", "issue", "ai_insight"} |->
        IF k = "ai_insight" THEN text ELSE Get(issue, k, "")]

\* issue["ai_insight"] = ...: the dict gains (or overwrites) one key
SetInsight(issue, text) ==
    [k \in DOMAIN issue \cup {"ai_insight"} |->
        IF k = "ai_insight" THEN text ELSE issue[k]]

\* analyze_all([entry])[0]["issues"]: every issue of the list annotated in
\* place; outcomes[i] is what the external call does for the i-th issue
analyze_all(iss, enabled, outcomes) ==
    [i \in 1..Len(iss) |-> SetInsight(iss[i], analyze_issue(iss[i], enabled, outcomes[i]))]

---------------------------------------------------------------------------
(* ScoreCalculator.calculate_score                                         *)

\* Deduction with the elif branches turned into independent ifs: an issue
\* matching several buckets is charged for each
DeductionCumulative(issue) ==
    (IF IssueHas(issue, "spike") \/ IssueHas(issue, "drop") \/ IssueHas(issue, "outlier")
     THEN 25 ELSE 0)
    + (IF IssueHas(issue, "null") \/ IssueHas(issue, "zero") \/ IssueHas(issue, "negative")
       THEN 15 ELSE 0)
    + (IF IssueHas(issue, "no variation") THEN 5 ELSE 0)

\* Deduction with 5 subtracted for an issue that matches no bucket
DeductionDefaultFive(issue) ==
    IF IssueHas(issue, "spike") \/ IssueHas(issue, "drop")
           \/ IssueHas(issue, "outlier")
    THEN 25
    ELSE IF IssueHas(issue, "null") \/ IssueHas(issue, "zero")
            \/ IssueHas(issue, "negative")
    THEN 15
    ELSE 5

\* the if / elif chain of the loop body: what one issue subtracts
Deduction(issue) ==
    IF IssueHas(issue, "spike") \/ IssueHas(issue, "drop")
           \/ IssueHas(issue, "outlier")
    THEN 25
    ELSE IF IssueHas(issue, "null") \/ IssueHas(issue, "zero")
            \/ IssueHas(issue, "negative")
    THEN 15
    ELSE IF IssueHas(issue, "no variation")
    THEN 5
    ELSE 0

\* ScoreLoop passing over an issue that the next one repeats
RECURSIVE ScoreLoopSkipRepeats(_, _)
ScoreLoopSkipRepeats(iss, s) ==
    IF iss = <<>> THEN s
    ELSE ScoreLoopSkipRepeats(Tail(iss),
           IF Len(iss) >= 2 /\ Get(iss[1], "issue", "") = Get(iss[2], "issue", "")
           THEN s
           ELSE s - Deduction(Head(iss)))

RECURSIVE ScoreLoop(_, _)
ScoreLoop(iss, s) ==
    IF iss = <<>> THEN s ELSE ScoreLoop(Tail(iss), s - Deduction(Head(iss)))

\* FinalScore without the clamp
FinalScoreUnclamped(s) == s

\* final_score = max(0, score)
FinalScore(s) == IF s > 0 THEN s ELSE 0

calculate_score(iss) == FinalScore(ScoreLoop(iss, 100))

---------------------------------------------------------------------------
(* TestBuilder.build_tests                                                 *)

\* TestName with the names taken as written, neither lower-cased nor with
\* their spaces replaced
TestNameAsWritten(dash, issue) ==
    "test_" \o dash \o "_" \o Get(issue, "metric", "metric")

\* f"test_{safe_dashboard_name}_{safe_metric}"
TestName(dash, issue) ==
    LET safe_dashboard_name == Safe(dash)
        safe_metric == Safe(Get(issue, "metric", "metric"))
    IN  "test_" \o safe_dashboard_name \o "_" \o safe_metric

\* TestCode with the null/zero branch tested before the spike and drop ones
TestCodeNullFirst(dash, issue) ==
    LET test_name == TestName(dash, issue)
    IN  IF IssueHas(issue, "null") \/ IssueHas(issue, "zero")
        THEN "def " \o test_name \o "_no_nulls():\n"
             \o "    assert all(v not in [None, 0] for v in values)\n"
        ELSE IF IssueHas(issue, "spike")
        THEN "def " \o test_name \o "_no_spike():\n"
             \o "    assert last_value <= mean * 3\n"
        ELSE IF IssueHas(issue, "drop")
        THEN "def " \o test_name \o "_no_drop():\n"
             \o "    assert last_value >= mean * 0.3\n"
        ELSE IF IssueHas(issue, "negative")
        THEN "def " \o test_name \o "_no_negative_values():\n"
             \o "    assert all(v >= 0 for v in values)\n"
        ELSE IF IssueHas(issue, "no variation")
        THEN "def " \o test_name \o "_variation_exists():\n"
             \o "    assert len(set(values)) > 1\n"
        ELSE "def " \o test_name \o "_generic_quality_check():\n"
             \o "    assert False, 'Unexpected data quality issue detected.'\n"

\* TestCode quoting the issue's annotation in the generated function
TestCodeQuotingInsight(dash, issue) ==
    "def " \o TestName(dash, issue) \o "_generic_quality_check():\n"
    \o "    assert False, '" \o Get(issue, "ai_insight", "") \o "'\n"

\* the if / elif chain of the inner loop: the code generated for one issue
TestCode(dash, issue) ==
    LET test_name == TestName(dash, issue)
    IN  IF IssueHas(issue, "spike")
        THEN "def " \o test_name \o "_no_spike():\n"
             \o "    assert last_value <= mean * 3\n"
        ELSE IF IssueHas(issue, "drop")
        THEN "def " \o test_name \o "_no_drop():\n"
             \o "    assert last_value >= mean * 0.3\n"
        ELSE IF IssueHas(issue, "null") \/ IssueHas(issue, "zero")
        THEN "def " \o test_name \o "_no_nulls():\n"
             \o "    assert all(v not in [None, 0] for v in values)\n"
        ELSE IF IssueHas(issue, "negative")
        THEN "def " \o test_name \o "_no_negative_values():\n"
             \o "    assert all(v >= 0 for v in values)\n"
        ELSE IF IssueHas(issue, "no variation")
        THEN "def " \o test_name \o "_variation_exists():\n"
             \o "    assert len(set(values)) > 1\n"
        ELSE "def " \o test_name \o "_generic_quality_check():\n"
             \o "    assert False, 'Unexpected data quality issue detected.'\n"

\* test_code after the inner loop: one entry per issue, in issue order
TestCodeList(dash, iss) == [i \in 1..Len(iss) |-> TestCode(dash, iss[i])]

\* sep.join(parts)
RECURSIVE Join(_, _)
Join(sep, parts) ==
    IF parts = <<>> THEN ""
    ELSE IF Len(parts) = 1 THEN parts[1]
    ELSE parts[1] \o sep \o Join(sep, Tail(parts))

\* tests_by_dashboard[dashboard] = "\n".join(test_code): an item is set, or
\* an existing key overwritten in place
SetItem(d, key, value) ==
    IF key \in Keys(d)
    THEN [i \in 1..Len(d) |-> IF d[i].name = key THEN [name |-> key, code |-> value] ELSE d[i]]
    ELSE Append(d, [name |-> key, code |-> value])

RECURSIVE BuildLoop(_, _)
BuildLoop(entries, tests_by_dashboard) ==
    IF entries = <<>> THEN tests_by_dashboard
    ELSE LET e == Head(entries)
             dash == Get(e, "dashboard", "unknown_dashboard")
             iss == Get(e, "issues", <<>>)
         IN  BuildLoop(Tail(entries),
                       SetItem(tests_by_dashboard, dash,
                               Join("\n", TestCodeList(dash, iss))))

build_tests(entries) == BuildLoop(entries, <<>>)

---------------------------------------------------------------------------
(* Inputs                                                                  *)

Val == {None, Num(-1), Num(0), Num(1)}

SeriesUpTo(k) == UNION {[1..n -> Val] : n \in 0..k}

Metric(name, values) == [name |-> name, values |-> values]
Range(name, lo, hi) == [name |-> name, range |-> <<lo, hi>>]

\* expected_ranges: None, or a dict
NoRanges == [given |-> FALSE, items |-> <<>>]
Ranges(items) == [given |-> TRUE, items |-> items]

\* absent, empty, holding the metric, lacking the metric
RangeChoices ==
    { NoRanges,
      Ranges(<<>>),
      Ranges(<<Range("Site Visits", 0, 1)>>),
      Ranges(<<Range("cost", -1, 0)>>) }

PairRangeChoices ==
    { NoRanges,
      Ranges(<<Range("Site Visits", 0, 1), Range("cost", -1, 0)>>) }

Dashboard(name, m, r) ==
    [dashboard |-> name, metrics |-> m, metrics_given |-> TRUE, expected_ranges |-> r]

\* a dashboard whose metrics are missing: process_dashboard(name, None, r)
WithoutMetrics(name, r) ==
    [dashboard |-> name, metrics |-> <<>>, metrics_given |-> FALSE, expected_ranges |-> r]

\* main.py's MOCK_DASHBOARDS
MOCK_DASHBOARDS ==
    << Dashboard("Sales Overview",
         << Metric("Revenue", <<Num(1000), Num(1050), Num(1020), Num(5200)>>),
            Metric("Orders", <<Num(82), Num(80), Num(81), None>>),
            Metric("Margin", <<Num(25), Num(25), Num(25), Num(25)>>) >>,
         Ranges(<< Range("Revenue", 900, 2000), Range("Orders", 50, 150),
                   Range("Margin", 10, 50) >>)),
       Dashboard("Marketing Performance",
         << Metric("SiteVisits", <<Num(300), Num(310), Num(305), Num(0)>>),
            Metric("Conversions", <<Num(5), Num(7), Num(-2), Num(8)>>),
            Metric("Cost", <<Num(200), Num(180), Num(500), Num(210)>>) >>,
         Ranges(<< Range("SiteVisits", 200, 1000), Range("Conversions", 0, 50),
                   Range("Cost", 100, 300) >>)) >>

\* main's environment: the module constant USE_TABLEAU_API, the login's
\* rest.enabled, and whether SLACK_WEBHOOK_URL, SMTP_HOST and the four JIRA_*
\* variables are set
Config(api, login, slack, smtp, jira) ==
    [USE_TABLEAU_API |-> api, rest_enabled |-> login, slack_url |-> slack,
     smtp_host |-> smtp, jira_enabled |-> jira]

\* process_dashboard and the engines called without main
OutsideMain ==
    /\ config = Config(FALSE, FALSE, FALSE, FALSE, FALSE)
    /\ dashboards = <<>>
    /\ results = <<>>

\* dashboards of one metric, of two metrics, of none, and the mock ones
SingleInputs(k) ==
    { Dashboard("Sales Overview", <<Metric("Site Visits", s)>>, r) :
        s \in SeriesUpTo(k), r \in RangeChoices }

\* the values of the two-metric dashboards' series
PairVal == {None, Num(-1), Num(1)}

PairSeriesUpTo(k) == UNION {[1..n -> PairVal] : n \in 0..k}

PairInputs(k) ==
    { Dashboard("Sales Overview", <<Metric("Site Visits", p[1]), Metric("cost", p[2])>>, r) :
        p \in PairSeriesUpTo(k) \X PairSeriesUpTo(k), r \in PairRangeChoices }

EmptyInputs == { Dashboard("Sales Overview", <<>>, r) : r \in RangeChoices }

MissingInputs == { WithoutMetrics("Sales Overview", r) : r \in RangeChoices }

MockInputs == { MOCK_DASHBOARDS[i] : i \in 1..Len(MOCK_DASHBOARDS) }

\* dashboards of a single mock metric, with its expected range or without
ScenarioInputs ==
    { Dashboard("Sales Overview",
                <<Metric("Revenue", <<Num(1000), Num(1050), Num(1020), Num(5200)>>)>>,
                NoRanges),
      Dashboard("Sales Overview",
                <<Metric("Orders", <<Num(82), Num(80), Num(81), None>>)>>,
                Ranges(<<Range("Orders", 50, 150)>>)),
      Dashboard("Sales Overview",
                <<Metric("Margin", <<Num(25), Num(25), Num(25), Num(25)>>)>>,
                NoRanges),
      Dashboard("Sales Overview",
                <<Metric("Margin", <<Num(25), Num(25), Num(25), Num(25)>>)>>,
                Ranges(<<Range("Margin", 10, 50)>>)),
      Dashboard("Marketing Performance",
                <<Metric("Conversions", <<Num(5), Num(7), Num(-2), Num(8)>>)>>,
                Ranges(<<Range("Conversions", 0, 50)>>)) }

\* dashboards whose series are long enough for one value to exceed five
\* times the average without the last one being a spike, a drop or an outlier
ExtremeInputs ==
    { Dashboard("Sales Overview",
                <<Metric("Cost", <<Num(16), Num(1), Num(1), Num(1), Num(1), Num(1), Num(1)>>)>>,
                NoRanges),
      Dashboard("Sales Overview",
                <<Metric("Revenue", <<Num(1), Num(1), Num(1), Num(17), Num(1), Num(1), Num(1)>>),
                  Metric("Cost", <<Num(16), Num(1), Num(1), Num(1), Num(1), Num(1), Num(1)>>)>>,
                Ranges(<<Range("Revenue", 0, 20)>>)) }

\* series with a null among their values: before equal values, after them,
\* before a spike, after it, before a drop
NullSeries ==
    { <<Num(25), Num(25), None>>,
      <<None, Num(-1), Num(-1)>>,
      <<Num(0), None, Num(0), Num(0), Num(1)>>,
      <<Num(0), Num(0), Num(0), Num(1), None>>,
      <<Num(3), None, Num(3), Num(0)>> }

NullInputs ==
    { Dashboard("Sales Overview", <<Metric("Margin", s)>>, NoRanges) : s \in NullSeries }

\* the dashboards process_dashboard is run on
DashInputs(k) ==
    SingleInputs(k) \cup PairInputs(k) \cup EmptyInputs \cup MissingInputs
    \cup MockInputs \cup ScenarioInputs \cup ExtremeInputs \cup NullInputs

\* full-length numeric series over a wider range of values, on which the
\* population and the sample standard deviation disagree about the outlier
WideVal == {Num(0), Num(1), Num(3)}

WideInputs(k) ==
    { Dashboard("Sales Overview", <<Metric("Site Visits", s)>>, NoRanges) :
        s \in [1..k -> WideVal] }

\* the dashboards the three engines alone are run on
EngineInputs(k) ==
    SingleInputs(k) \cup WideInputs(k) \cup MockInputs \cup ScenarioInputs

---------------------------------------------------------------------------
(* process_dashboard, then main's build_tests                              *)

Init ==
    /\ \E d \in DashInputs(MaxPairLen) :
          /\ dashboard = d.dashboard
          /\ metrics = d.metrics
          /\ metrics_given = d.metrics_given
          /\ expected_ranges = d.expected_ranges
    /\ ai_enabled \in BOOLEAN
    /\ pc = "rules"
    /\ rule_issues = <<>>
    /\ anomaly_issues = <<>>
    /\ validation_issues = <<>>
    /\ all_issues = <<>>
    /\ entry = <<>>
    /\ test_code = <<>>
    /\ tests = <<>>
    /\ OutsideMain
    /\ calls = <<>>

\* 1. rule_issues = rules.check_all(metrics); for metrics = None the loop
\* header metrics.items() raises AttributeError, which nothing catches
Rules ==
    /\ pc = "rules"
    /\ IF metrics_given /\ ~\E i \in 1..Len(metrics) : CheckRaises(metrics[i].values)
       THEN /\ rule_issues' = check_all(metrics)
            /\ pc' = "anomaly"
       ELSE /\ rule_issues' = rule_issues
            /\ pc' = "raised"
    /\ UNCHANGED <<config, dashboards, results, dashboard, metrics, metrics_given,
                   expected_ranges, ai_enabled, anomaly_issues,
                   validation_issues, all_issues, entry, test_code, tests, calls>>

\* Detect with the filter of anomaly_detector.py:18 written back into each
\* series (values[:] = numeric_values)
DetectFilteringInPlace ==
    /\ pc = "anomaly"
    /\ anomaly_issues' = detect(metrics)
    /\ metrics' = [i \in 1..Len(metrics) |->
                      Metric(metrics[i].name, SelectSeq(metrics[i].values, IsNumber))]
    /\ pc' = "validate"
    /\ UNCHANGED <<config, dashboards, results, dashboard, metrics_given,
                   expected_ranges, ai_enabled, rule_issues,
                   validation_issues, all_issues, entry, test_code, tests, calls>>

\* 2. anomaly_issues = detector.detect(metrics)
Detect ==
    /\ pc = "anomaly"
    /\ IF \E i \in 1..Len(metrics) : DetectRaises(metrics[i].values)
       THEN /\ anomaly_issues' = anomaly_issues
            /\ pc' = "raised"
       ELSE /\ anomaly_issues' = detect(metrics)
            /\ pc' = "validate"
    /\ UNCHANGED <<config, dashboards, results, dashboard, metrics, metrics_given,
                   expected_ranges, ai_enabled, rule_issues,
                   validation_issues, all_issues, entry, test_code, tests, calls>>

\* 3. validation_issues = validators.validate(metrics, expected_ranges)
Validate ==
    /\ pc = "validate"
    /\ IF \E i \in 1..Len(metrics) :
             ValidateRaises(metrics[i].name, metrics[i].values, expected_ranges)
       THEN /\ validation_issues' = validation_issues
            /\ pc' = "raised"
       ELSE /\ validation_issues' = validate(metrics, expected_ranges)
            /\ pc' = "combine"
    /\ UNCHANGED <<config, dashboards, results, dashboard, metrics, metrics_given,
                   expected_ranges, ai_enabled, rule_issues,
                   anomaly_issues, all_issues, entry, test_code, tests, calls>>

\* Combined with the validator's issues first
CombinedValidationFirst(r, a, v) == v \o r \o a

\* all_issues = rule_issues + anomaly_issues + validation_issues
Combined(r, a, v) == r \o a \o v

Combine ==
    /\ pc = "combine"
    /\ all_issues' = Combined(rule_issues, anomaly_issues, validation_issues)
    /\ pc' = "annotate"
    /\ UNCHANGED <<config, dashboards, results, dashboard, metrics, metrics_given,
                   expected_ranges, ai_enabled, rule_issues,
                   anomaly_issues, validation_issues, entry, test_code, tests, calls>>

\* 4. entry = {"dashboard": name, "issues": all_issues};
\*    entry = ai.analyze_all([entry])[0]
\* The issue dicts are annotated in place: all_issues and entry["issues"] are
\* one list.  rule_issues, anomaly_issues and validation_issues, which are
\* not read again, stay as the engines returned them.  The external service
\* answers the first issue one way and the others another way.
Annotate ==
    /\ pc = "annotate"
    /\ \E first \in ServiceAnswers(ai_enabled), rest \in ServiceAnswers(ai_enabled) :
          LET outcomes == [i \in 1..Len(all_issues) |-> IF i = 1 THEN first ELSE rest]
              annotated == analyze_all(all_issues, ai_enabled, outcomes)
          IN  /\ all_issues' = annotated
              /\ entry' = [dashboard |-> dashboard, issues |-> annotated]
              /\ calls' = [i \in 1..Len(all_issues) |-> ServiceCall(outcomes[i])]
    /\ pc' = "score"
    /\ UNCHANGED <<config, dashboards, results, dashboard, metrics, metrics_given,
                   expected_ranges, ai_enabled, rule_issues,
                   anomaly_issues, validation_issues, test_code, tests>>

\* entry["score"] = value
SetScore(e, value) ==
    [k \in DOMAIN e \cup {"score"} |-> IF k = "score" THEN value ELSE e[k]]

\* 5. entry["score"] = scorer.calculate_score(entry["issues"])
Score ==
    /\ pc = "score"
    /\ entry' = SetScore(entry, calculate_score(entry.issues))
    /\ pc' = "done"
    /\ UNCHANGED <<config, dashboards, results, dashboard, metrics, metrics_given,
                   expected_ranges, ai_enabled, rule_issues,
                   anomaly_issues, validation_issues, all_issues, test_code, tests, calls>>

\* main, step 6: tests = test_builder.build_tests(results), results = [entry]
BuildTests ==
    /\ pc = "done"
    /\ tests' = build_tests(<<entry>>)
    /\ test_code' = TestCodeList(Get(entry, "dashboard", "unknown_dashboard"),
                                 Get(entry, "issues", <<>>))
    /\ pc' = "tests"
    /\ UNCHANGED <<config, dashboards, results, dashboard, metrics, metrics_given,
                   expected_ranges, ai_enabled, rule_issues,
                   anomaly_issues, validation_issues, all_issues, entry, calls>>

Next == Rules \/ Detect \/ Validate \/ Combine \/ Annotate \/ Score \/ BuildTests

Spec == Init /\ [][Next]_vars

---------------------------------------------------------------------------
(* The three engines alone, on the longer series                           *)

InitEngines ==
    /\ \E d \in EngineInputs(MaxLen) :
          /\ dashboard = d.dashboard
          /\ metrics = d.metrics
          /\ metrics_given = d.metrics_given
          /\ expected_ranges = d.expected_ranges
    /\ ai_enabled = FALSE
    /\ pc = "rules"
    /\ rule_issues = <<>>
    /\ anomaly_issues = <<>>
    /\ validation_issues = <<>>
    /\ all_issues = <<>>
    /\ entry = <<>>
    /\ test_code = <<>>
    /\ tests = <<>>
    /\ OutsideMain
    /\ calls = <<>>

NextEngines == Rules \/ Detect \/ Validate

SpecEngines == InitEngines /\ [][NextEngines]_vars

---------------------------------------------------------------------------
(* The three engines on series whose mean no float holds exactly           *)

MaxTieLen == 5

TieVal == {None, Num(48), Num(50)}

TieInputs(k) ==
    { Dashboard("Sales Overview", <<Metric("Revenue", s)>>, NoRanges) :
        s \in UNION {[1..n -> TieVal] : n \in 0..k} }

InitRounding ==
    /\ \E d \in TieInputs(MaxTieLen) :
          /\ dashboard = d.dashboard
          /\ metrics = d.metrics
          /\ metrics_given = d.metrics_given
          /\ expected_ranges = d.expected_ranges
    /\ ai_enabled = FALSE
    /\ pc = "rules"
    /\ rule_issues = <<>>
    /\ anomaly_issues = <<>>
    /\ validation_issues = <<>>
    /\ all_issues = <<>>
    /\ entry = <<>>
    /\ test_code = <<>>
    /\ tests = <<>>
    /\ OutsideMain
    /\ calls = <<>>

SpecRounding == InitRounding /\ [][NextEngines]_vars

---------------------------------------------------------------------------
(* Python floats: non-negative doubles with their mantissas written out    *)

\* natural numbers beyond 2^31 as sequences of digits in base 2^15, the
\* least significant first, without leading zeros; zero is <<>>
Base == 2^15

Digit(a, i) == IF i \in 1..Len(a) THEN a[i] ELSE 0

\* a without its leading zeros
Trim(a) ==
    LET nz == {i \in 1..Len(a) : a[i] # 0}
    IN  IF a = <<>> \/ nz = {} THEN <<>>
        ELSE SubSeq(a, 1, CHOOSE i \in nz : \A j \in nz : j <= i)

\* a + b: digit i receives a carry when some lower digit overflows and the
\* digits in between pass the carry on
BAdd(a, b) ==
    LET carry(i) == \E j \in 1..(i - 1) :
                       /\ Digit(a, j) + Digit(b, j) >= Base
                       /\ \A k \in (j + 1)..(i - 1) : Digit(a, k) + Digit(b, k) = Base - 1
        n == 1 + (IF Len(a) > Len(b) THEN Len(a) ELSE Len(b))
    IN  IF a = <<>> THEN b
        ELSE IF b = <<>> THEN a
        ELSE Trim([i \in 1..n |->
                     (Digit(a, i) + Digit(b, i) + (IF carry(i) THEN 1 ELSE 0)) % Base])

\* a - b for a >= b
BSub(a, b) ==
    LET borrow(i) == \E j \in 1..(i - 1) :
                        /\ Digit(a, j) < Digit(b, j)
                        /\ \A k \in (j + 1)..(i - 1) : Digit(a, k) = Digit(b, k)
    IN  IF b = <<>> THEN a
        ELSE Trim([i \in 1..Len(a) |->
                     (Digit(a, i) - Digit(b, i) - (IF borrow(i) THEN 1 ELSE 0)) % Base])

\* -1, 0, 1 as a < b, a = b, a > b
BCmp(a, b) ==
    LET d == {i \in 1..Len(a) : Digit(a, i) # Digit(b, i)}
        i == CHOOSE j \in d : \A k \in d : k <= j
    IN  IF Len(a) # Len(b) THEN (IF Len(a) < Len(b) THEN 0 - 1 ELSE 1)
        ELSE IF d = {} THEN 0
        ELSE IF a[i] < b[i] THEN 0 - 1 ELSE 1

\* what a sequence of numbers below 2^31 stands for when entry i weighs
\* Base^(i - 1): the entries' low halves plus their high halves one place
\* up, twice over for entries of up to 2^30
Carried(cols) ==
    LET lo == [i \in 1..Len(cols) |-> cols[i] % Base]
        hi == [i \in 1..Len(cols) |-> cols[i] \div Base]
    IN  IF cols = <<>> THEN <<>> ELSE BAdd(Trim(lo), Trim(<<0>> \o hi))

\* a * c for 0 <= c < Base
BMulSmall(a, c) ==
    IF a = <<>> THEN <<>> ELSE Carried([i \in 1..Len(a) |-> a[i] * c])

\* a * b: column k collects the products of the digits whose places add up
\* to it, low halves and high halves apart
BMul(a, b) ==
    LET lo(k) == Sum([i \in 1..Len(a) |-> (a[i] * Digit(b, k + 1 - i)) % Base])
        hi(k) == Sum([i \in 1..Len(a) |-> (a[i] * Digit(b, k + 1 - i)) \div Base])
        n == Len(a) + Len(b)
    IN  IF a = <<>> \/ b = <<>> THEN <<>>
        ELSE BAdd(Carried([k \in 1..n |-> lo(k)]),
                  Trim(<<0>> \o Carried([k \in 1..n |-> hi(k)])))

\* a % d for 0 < d < Base
RECURSIVE BMod(_, _)
BMod(a, d) == IF a = <<>> THEN 0 ELSE (BMod(Tail(a), d) * Base + Head(a)) % d

\* a \div d for 0 < d < Base: long division, the digit at place i being the
\* quotient of what the higher places leave over and the digit of a there
BDiv(a, d) ==
    IF a = <<>> THEN <<>>
    ELSE
    Trim([i \in 1..Len(a) |-> (BMod(SubSeq(a, i + 1, Len(a)), d) * Base + a[i]) \div d])

\* the number of bits of a
BitLen(a) ==
    IF a = <<>> THEN 0
    ELSE 15 * (Len(a) - 1) + Cardinality({j \in 0..14 : 2^j <= a[Len(a)]})

\* a * 2^k
Shl(a, k) ==
    LET s == k \div 15
        p == 2^(k % 15)
    IN  IF a = <<>> THEN <<>>
        ELSE
        Trim([i \in 1..(Len(a) + s + 1) |->
                 ((Digit(a, i - s) * p) % Base) + ((Digit(a, i - s - 1) * p) \div Base)])

\* a \div 2^k
Shr(a, k) ==
    LET s == k \div 15
        p == 2^(k % 15)
    IN  IF a = <<>> \/ s >= Len(a) THEN <<>>
        ELSE Trim([i \in 1..(Len(a) - s) |->
                     (Digit(a, i + s) \div p) + ((Digit(a, i + s + 1) % p) * (Base \div p))])

\* bit k of a, the lowest being bit 0
Bit(a, k) == (Digit(a, k \div 15 + 1) \div 2^(k % 15)) % 2

\* whether a bit of a below bit k is set
AnyBitBelow(a, k) ==
    \E i \in 1..Len(a) : \/ (i - 1 < k \div 15 /\ a[i] # 0)
                         \/ (i - 1 = k \div 15 /\ a[i] % 2^(k % 15) # 0)

IsOdd(a) == Bit(a, 0) = 1

\* a non-negative float: m * 2^e with m of exactly 53 bits, or zero
Float(m, e) == [t |-> "float", m |-> m, e |-> e]
Zero == Float(<<>>, 0)


\* the float nearest to n * 2^e, or to a number strictly between n * 2^e
\* and (n + 1) * 2^e when sticky, ties to even; with sticky n has more than
\* 54 bits
Round(n, e, sticky) ==
    LET len == BitLen(n)
        sh == len - 53
        q == Shr(n, sh)
        up == /\ Bit(n, sh - 1) = 1
              /\ (AnyBitBelow(n, sh - 1) \/ sticky \/ IsOdd(q))
        m == IF up THEN BAdd(q, <<1>>) ELSE q
    IN  IF n = <<>> THEN Zero
        ELSE IF len <= 53 THEN Float(Shl(n, 53 - len), e - (53 - len))
        ELSE IF BitLen(m) > 53 THEN Float(Shr(m, 1), e + sh + 1)
        ELSE Float(m, e + sh)

Min(x, y) == IF x < y THEN x ELSE y

FAdd(a, b) ==
    IF a.m = <<>> THEN b ELSE IF b.m = <<>> THEN a
    ELSE LET e == Min(a.e, b.e)
         IN  Round(BAdd(Shl(a.m, a.e - e), Shl(b.m, b.e - e)), e, FALSE)

\* -1, 0, 1 as a < b, a = b, a > b
FCmp(a, b) ==
    IF a.m = <<>> \/ b.m = <<>>
    THEN (IF a.m = b.m THEN 0 ELSE IF a.m = <<>> THEN 0 - 1 ELSE 1)
    ELSE IF a.e # b.e THEN (IF a.e < b.e THEN 0 - 1 ELSE 1)
    ELSE BCmp(a.m, b.m)

\* abs(a - b)
FAbsDiff(a, b) ==
    IF a.m = <<>> THEN b ELSE IF b.m = <<>> THEN a
    ELSE LET e == Min(a.e, b.e)
             x == Shl(a.m, a.e - e)
             y == Shl(b.m, b.e - e)
         IN  IF BCmp(x, y) >= 0 THEN Round(BSub(x, y), e, FALSE)
             ELSE Round(BSub(y, x), e, FALSE)

FMul(a, b) ==
    IF a.m = <<>> \/ b.m = <<>> THEN Zero
    ELSE Round(BMul(a.m, b.m), a.e + b.e, FALSE)

\* the float nearest to n * 2^e / c for an integer 0 < c < 2^6 and n zero or
\* of 53 bits or more: the quotient is computed to 8 bits beyond those of n
RoundQuotient(n, e, c) ==
    IF n = <<>> THEN Zero
    ELSE Round(BDiv(Shl(n, 8), c), e - 8, BMod(Shl(n, 8), c) # 0)

FDiv(a, c) == RoundQuotient(a.m, a.e, c)

\* float(c) for an integer 0 < c < 2^15
FromInt(c) == Round(<<c>>, 0, FALSE)

\* 0.3, the float nearest to it: 5404319552844595 * 2^(-54)
PointThree == Float(<<13107, 26214, 19660, 153>>, 0 - 54)

\* 0.21, the float nearest to it: 7566047373982433 * 2^(-55)
PointTwoOne == Float(<<31457, 23592, 1310, 215>>, 0 - 55)

\* 0.9, the float nearest to it: 8106479329266893 * 2^(-53)
PointNine == Float(<<19661, 6553, 13107, 230>>, 0 - 53)

---------------------------------------------------------------------------
(* The rule and anomaly engines on series of floats                        *)

\* numeric_values = [v for v in values if v is not None]
FloatValues(values) == SelectSeq(values, LAMBDA v : v.t = "float")

\* the running totals of sum(nums): the start value and the total after each
\* addition, every addition rounded
RECURSIVE RunningSum(_)
RunningSum(nums) ==
    IF nums = <<>> THEN <<Zero>>
    ELSE LET before == RunningSum(SubSeq(nums, 1, Len(nums) - 1))
         IN  before \o <<FAdd(before[Len(before)], nums[Len(nums)])>>

\* sum(numeric_values)
FSum(nums) == RunningSum(nums)[Len(nums) + 1]

\* max(nums)
FMax(nums) ==
    nums[CHOOSE i \in 1..Len(nums) : \A j \in 1..Len(nums) : FCmp(nums[i], nums[j]) >= 0]

\* the least exponent among the non-zero numbers
LeastExponent(nums) ==
    LET nz == {i \in 1..Len(nums) : nums[i].m # <<>>}
    IN  IF nz = {} THEN 0
        ELSE nums[CHOOSE i \in nz : \A j \in nz : nums[i].e <= nums[j].e].e

\* the numbers as integer multiples of 2^e
Aligned(nums, e) == [i \in 1..Len(nums) |-> Shl(nums[i].m, nums[i].e - e)]

\* the sum of the numbers xs, column by column
BSum(xs) ==
    LET width == Sum([k \in 1..Len(xs) |-> Len(xs[k])])
    IN  Carried([i \in 1..width |-> Sum([k \in 1..Len(xs) |-> Digit(xs[k], i)])])

\* statistics.mean: the exact sum divided by n, rounded once
FMean(nums) ==
    LET e == LeastExponent(nums)
    IN  RoundQuotient(BSum(Aligned(nums, e)), e, Len(nums))

\* n * n * pvariance(nums) as a multiple of 4^e, e the least exponent
FScaledVariance(nums) ==
    LET e == LeastExponent(nums)
        x == Aligned(nums, e)
        s == BSum(x)
        ss == BSum([i \in 1..Len(nums) |-> BMul(x[i], x[i])])
    IN  BSub(BMulSmall(ss, Len(nums)), BMul(s, s))

\* the point halfway between the float y > 0 and the float before it, and
\* whether that float's last bit is 0
HalfwayBelow(y) ==
    IF y.m = Shl(<<1>>, 52)
    THEN [m |-> BSub(Shl(<<1>>, 54), <<1>>), e |-> y.e - 2, even |-> FALSE]
    ELSE [m |-> BSub(Shl(y.m, 1), <<1>>), e |-> y.e - 1, even |-> IsOdd(y.m)]

\* statistics.pstdev(nums) < y for a float y and a * 4^e / n^2 the exact
\* variance of nums: pstdev returns the float nearest to the root of the
\* variance, which is below y exactly when that root is below the point
\* halfway between y and the float before it, or on it with the tie going
\* down
PstdevBelow(a, e, n, y) ==
    /\ y.m # <<>>
    /\ \E h \in {HalfwayBelow(y)} :
       \E k \in {IF e < h.e THEN e ELSE h.e}, square \in {BMul(h.m, h.m)} :
       \E scaled \in {BMulSmall(square, n * n)} :
       \E left \in {Shl(a, 2 * (e - k))}, right \in {Shl(scaled, 2 * (h.e - k))} :
          \/ BCmp(left, right) < 0
          \/ (BCmp(left, right) = 0 /\ h.even)

\* y / 2
Half(y) == IF y.m = <<>> THEN y ELSE Float(y.m, y.e - 1)

\* Rule 1 on floats: any(v is None or v == 0 for v in values)
FHasNullOrZero(values) ==
    \E i \in 1..Len(values) : values[i] = None \/ values[i] = Zero

\* Rule 2 on floats
FHasNoVariation(values) ==
    LET numeric_values == FloatValues(values)
    IN  Len(numeric_values) > 1
        /\ Cardinality({numeric_values[i] : i \in 1..Len(numeric_values)}) = 1

\* Rule 3 on floats: none of the floats of this model is below zero
FHasNegative(values) ==
    \E i \in 1..Len(values) : values[i] # None /\ FCmp(values[i], Zero) < 0

\* Rule 4 on floats: avg = sum(numeric_values) / len(numeric_values), each
\* addition, the division and avg * 5 rounded; max(numeric_values) > avg * 5
FHasExtremeSpike(values) ==
    LET numeric_values == FloatValues(values)
    IN  /\ numeric_values # <<>>
        /\ \E total \in {FSum(numeric_values)} :
           \E avg \in {FDiv(total, Len(numeric_values))} :
           \E limit \in {FMul(avg, FromInt(5))} :
              FCmp(FMax(numeric_values), limit) > 0

\* last_value > mean * 3
FIsSpike(nums) ==
    \E mean \in {FMean(nums)} :
    \E limit \in {FMul(mean, FromInt(3))} :
       FCmp(nums[Len(nums)], limit) > 0

\* last_value < mean * 0.3
FIsDrop(nums) ==
    \E mean \in {FMean(nums)} :
    \E limit \in {FMul(mean, PointThree)} :
       FCmp(nums[Len(nums)], limit) < 0

\* stdev > 0 and abs(last_value - mean) > 2 * stdev
FIsOutlier(nums) ==
    \E mean \in {FMean(nums)} :
    \E distance \in {FAbsDiff(nums[Len(nums)], mean)} :
    \E variance \in {FScaledVariance(nums)} :
       /\ variance # <<>>
       /\ PstdevBelow(variance, LeastExponent(nums), Len(nums), Half(distance))


\* the statistics a details string quotes for a series of floats: the mean
\* and the variance that round(mean, 2) and round(stdev, 2) are computed from
FloatStats(nums) ==
    [mean |-> FMean(nums), variance |-> FScaledVariance(nums),
     e |-> LeastExponent(nums), n |-> Len(nums)]

\* the body of check's loop on a series of floats
FloatCheckMetric(metric_name, values) ==
    (IF FHasNullOrZero(values)
     THEN <<Issue(metric_name, "Null / Zero values",
                  <<"{metric_name} contains null/zero values: {values}",
                    metric_name, values>>)>>
     ELSE <<>>)
    \o
    (IF FHasNoVariation(values)
     THEN <<Issue(metric_name, "No variation",
                  <<"{metric_name} has constant values: {values}",
                    metric_name, values>>)>>
     ELSE <<>>)
    \o
    (IF FHasNegative(values)
     THEN <<Issue(metric_name, "Negative values",
                  <<"{metric_name} contains negative numbers: {values}",
                    metric_name, values>>)>>
     ELSE <<>>)
    \o
    (IF FHasExtremeSpike(values)
     THEN <<Issue(metric_name, "Extremely large value detected",
                  <<"{metric_name} has extreme spikes: {values}",
                    metric_name, values>>)>>
     ELSE <<>>)

\* the body of detect's loop on a series of floats
FloatDetectMetric(metric_name, values) ==
    LET numeric_values == FloatValues(values)
        last_value == numeric_values[Len(numeric_values)]
    IN  IF Len(numeric_values) < 2 THEN <<>>
        ELSE
          (IF FIsSpike(numeric_values)
           THEN <<Issue(metric_name, "Sudden spike detected",
                        <<"Value {last_value} is > 3x above mean ({round(mean, 2)})",
                          last_value, FloatStats(numeric_values)>>)>>
           ELSE <<>>)
          \o
          (IF FIsDrop(numeric_values)
           THEN <<Issue(metric_name, "Sudden drop detected",
                        <<"Value {last_value} is < 30% of mean ({round(mean, 2)})",
                          last_value, FloatStats(numeric_values)>>)>>
           ELSE <<>>)
          \o
          (IF FIsOutlier(numeric_values)
           THEN <<Issue(metric_name, "Outlier detected",
                        <<"{last_value} differs from mean ({round(mean, 2)}) by > 2 standard deviations",
                          last_value, FloatStats(numeric_values)>>)>>
           ELSE <<>>)

RECURSIVE FloatCheckLoop(_, _)
FloatCheckLoop(items, acc) ==
    IF items = <<>> THEN acc
    ELSE FloatCheckLoop(Tail(items),
                        acc \o FloatCheckMetric(Head(items).name, Head(items).values))

RECURSIVE FloatDetectLoop(_, _)
FloatDetectLoop(items, acc) ==
    IF items = <<>> THEN acc
    ELSE FloatDetectLoop(Tail(items),
                         acc \o FloatDetectMetric(Head(items).name, Head(items).values))

\* 1. rule_issues = rules.check_all(metrics), the series holding floats
RulesOnFloats ==
    /\ pc = "rules"
    /\ rule_issues' = FloatCheckLoop(metrics, CheckNewIssues)
    /\ pc' = "anomaly"
    /\ UNCHANGED <<config, dashboards, results, dashboard, metrics, metrics_given,
                   expected_ranges, ai_enabled, anomaly_issues,
                   validation_issues, all_issues, entry, test_code, tests, calls>>

\* 2. anomaly_issues = detector.detect(metrics), the series holding floats
DetectOnFloats ==
    /\ pc = "anomaly"
    /\ anomaly_issues' = FloatDetectLoop(metrics, DetectNewIssues)
    /\ pc' = "validate"
    /\ UNCHANGED <<config, dashboards, results, dashboard, metrics, metrics_given,
                   expected_ranges, ai_enabled, rule_issues,
                   validation_issues, all_issues, entry, test_code, tests, calls>>

NextFloats == RulesOnFloats \/ DetectOnFloats

MaxFloatLen == 5

FloatVal == {None, Zero, PointTwoOne, PointNine}

FloatInputs(k) ==
    { Dashboard("Sales Overview", <<Metric("Revenue", s)>>, NoRanges) :
        s \in UNION {[1..n -> FloatVal] : n \in 0..k} }

InitFloats ==
    /\ \E d \in FloatInputs(MaxFloatLen) :
          /\ dashboard = d.dashboard
          /\ metrics = d.metrics
          /\ metrics_given = d.metrics_given
          /\ expected_ranges = d.expected_ranges
    /\ ai_enabled = FALSE
    /\ pc = "rules"
    /\ rule_issues = <<>>
    /\ anomaly_issues = <<>>
    /\ validation_issues = <<>>
    /\ all_issues = <<>>
    /\ entry = <<>>
    /\ test_code = <<>>
    /\ tests = <<>>
    /\ OutsideMain
    /\ calls = <<>>

SpecFloats == InitFloats /\ [][NextFloats]_vars

---------------------------------------------------------------------------
(* ScoreCalculator.add_scores and TestBuilder.build_tests called directly  *)
(* on a report entry with an arbitrary issue list                          *)

\* an issue dict without the "issue" key
IssueWithoutName(metric) == [metric |-> metric, details |-> <<"details">>]

IssuePool ==
    { Issue("Site Visits", "Sudden spike detected", <<"details">>),
      Issue("cost", "Sudden drop detected", <<"details">>),
      Issue("Site Visits", "Outlier detected", <<"details">>),
      Issue("Site Visits", "Null / Zero values", <<"details">>),
      Issue("Site Visits", "Negative values", <<"details">>),
      Issue("Site Visits", "No variation", <<"details">>),
      Issue("site_visits", "No Variation", <<"details">>),
      Issue("Site Visits", "Out-of-range values", <<"details">>),
      Issue("Site Visits", "NULL SPIKE", <<"details">>),
      Issue("cost", "Drop to zero", <<"details">>),
      Issue("cost", "Negative outlier", <<"details">>),
      IssueWithoutName("cost") }

IssueListsUpTo(k) == UNION {[1..n -> IssuePool] : n \in 0..k}

\* list * n
RECURSIVE Repeat(_, _)
Repeat(list, n) == IF n = 0 THEN <<>> ELSE list \o Repeat(list, n - 1)

InitIssues ==
    /\ \E base \in IssueListsUpTo(MaxIssues), reps \in 1..MaxRepeat :
          /\ all_issues = Repeat(base, reps)
          /\ entry = [dashboard |-> "Marketing Performance", issues |-> Repeat(base, reps)]
    /\ dashboard = "Marketing Performance"
    /\ pc = "score"
    /\ metrics = <<>>
    /\ metrics_given = TRUE
    /\ expected_ranges = NoRanges
    /\ ai_enabled = FALSE
    /\ rule_issues = <<>>
    /\ anomaly_issues = <<>>
    /\ validation_issues = <<>>
    /\ test_code = <<>>
    /\ tests = <<>>
    /\ OutsideMain
    /\ calls = <<>>

NextIssues == Score \/ BuildTests

SpecIssues == InitIssues /\ [][NextIssues]_vars

---------------------------------------------------------------------------
(* The three engines called repeatedly, each on one instance               *)

CallVal == {None, Num(-1)}

CallInputs ==
    { Dashboard("Sales Overview", <<Metric("Site Visits", s)>>, r) :
        s \in UNION {[1..n -> CallVal] : n \in 0..MaxPairLen},
        r \in {NoRanges, Ranges(<<Range("Site Visits", 0, 1)>>)} }

Call(engine, d, result) ==
    [engine |-> engine, metrics |-> d.metrics,
     expected_ranges |-> d.expected_ranges, result |-> result]

\* calls keeps the first call and the latest one
Record(c) == IF calls = <<>> THEN <<c, c>> ELSE <<calls[1], c>>

InitCalls ==
    /\ pc = 0
    /\ calls = <<>>
    /\ dashboard = "Sales Overview"
    /\ metrics = <<>>
    /\ metrics_given = TRUE
    /\ expected_ranges = NoRanges
    /\ ai_enabled = FALSE
    /\ rule_issues = <<>>
    /\ anomaly_issues = <<>>
    /\ validation_issues = <<>>
    /\ all_issues = <<>>
    /\ entry = <<>>
    /\ test_code = <<>>
    /\ tests = <<>>
    /\ OutsideMain

UnchangedByCalls ==
    UNCHANGED <<config, dashboards, results, dashboard, metrics, metrics_given, expected_ranges, ai_enabled,
                rule_issues, anomaly_issues, validation_issues, all_issues, entry,
                test_code, tests>>

\* rules.check(metrics)
CallCheck ==
    /\ pc < MaxCalls
    /\ \E d \in CallInputs : calls' = Record(Call("check", d, check(d.metrics)))
    /\ pc' = pc + 1
    /\ UnchangedByCalls

\* detector.detect(metrics)
CallDetect ==
    /\ pc < MaxCalls
    /\ \E d \in CallInputs : calls' = Record(Call("detect", d, detect(d.metrics)))
    /\ pc' = pc + 1
    /\ UnchangedByCalls

\* validators.validate(metrics, expected_ranges)
CallValidate ==
    /\ pc < MaxCalls
    /\ \E d \in CallInputs :
          calls' = Record(Call("validate", d, validate(d.metrics, d.expected_ranges)))
    /\ pc' = pc + 1
    /\ UnchangedByCalls

NextCalls == CallCheck \/ CallDetect \/ CallValidate

SpecCalls == InitCalls /\ [][NextCalls]_vars

---------------------------------------------------------------------------
(* main: fetch, the processing loop, alerts, tickets, test generation      *)

MaxDashboards == 2

\* process_dashboard(name, metrics, expected_ranges) run to its return; the
\* external service answers every issue of the dashboard the same way
process_dashboard(d, outcome) ==
    LET issues == Combined(check_all(d.metrics), detect(d.metrics),
                           validate(d.metrics, d.expected_ranges))
        annotated == analyze_all(issues, outcome # "not called",
                                 [i \in 1..Len(issues) |-> outcome])
    IN  SetScore([dashboard |-> d.dashboard, issues |-> annotated],
                 calculate_score(annotated))

\* an entry of fetch_all_dashboard_metrics: metrics parsed from the CSV
\* summary by float(), expected_ranges {}.  float() also accepts "nan" and
\* "inf": finite is FALSE when the first series holds, besides the values
\* listed, one such value
Fetched(name, m, finite) ==
    [dashboard |-> name, metrics |-> m, metrics_given |-> TRUE,
     expected_ranges |-> Ranges(<<>>), finite |-> finite]

FetchedPool ==
    { Fetched("Sales Overview", <<Metric("Site Visits", <<Num(1), Num(1), Num(-1)>>)>>, TRUE),
      Fetched("Marketing Performance", <<Metric("cost", <<Num(0), Num(1), Num(1)>>)>>, TRUE),
      Fetched("Marketing Performance", <<Metric("cost", <<Num(1)>>)>>, FALSE) }

\* what fetcher.fetch_all_dashboard_metrics() returns
FetchedLists(k) == UNION {[1..n -> FetchedPool] : n \in 0..k}

\* statistics.mean / statistics.pstdev (anomaly_detector.py:26-27) raise on a
\* series of two or more numbers one of which is nan or inf; nothing in
\* detect or process_dashboard catches it
EvaluationRaises(d) ==
    /\ ~Get(d, "finite", TRUE)
    /\ Len(NumericValues(d.metrics[1].values)) + 1 >= 2

\* the list main's processing loops run over (main.py:120-155): the fetched
\* dashboards when the API is used and the login succeeded, the mock ones
\* only when USE_TABLEAU_API is false
Processed(cfg, fetched) ==
    IF cfg.USE_TABLEAU_API
    THEN IF cfg.rest_enabled THEN fetched ELSE <<>>
    ELSE MOCK_DASHBOARDS

\* a call of a notifier or of the ticket exporter, as calls records it
SinkCall(engine, arg, result) == [engine |-> engine, arg |-> arg, result |-> result]

\* SlackNotifier and EmailNotifier catch every exception and return False
NotifierOutcomes == {"sent", "failed"}

\* JiraExporter.create_issue: None when not configured; otherwise
\* requests.post answers 200/201, answers another status, or raises
JiraOutcomes(enabled) ==
    IF enabled THEN {"created", "rejected", "raised"} ELSE {"disabled"}

\* how many results the loop of main.py:199 has passed to create_issue
Offered == Cardinality({i \in 1..Len(calls) : calls[i].engine = "jira.create_issue"})

InitMain ==
    /\ pc = "fetch"
    /\ config \in {Config(api, login, slack, smtp, jira) :
                      api \in BOOLEAN, login \in BOOLEAN, slack \in BOOLEAN,
                      smtp \in BOOLEAN, jira \in BOOLEAN}
    /\ ai_enabled \in BOOLEAN
    /\ dashboards = <<>>
    /\ results = <<>>
    /\ calls = <<>>
    /\ tests = <<>>
    /\ dashboard = ""
    /\ metrics = <<>>
    /\ metrics_given = TRUE
    /\ expected_ranges = NoRanges
    /\ rule_issues = <<>>
    /\ anomaly_issues = <<>>
    /\ validation_issues = <<>>
    /\ all_issues = <<>>
    /\ entry = <<>>
    /\ test_code = <<>>

UnchangedByMain ==
    UNCHANGED <<config, ai_enabled, dashboard, metrics, metrics_given, expected_ranges,
                rule_issues, anomaly_issues, validation_issues, all_issues, entry,
                test_code>>

\* 1. FETCH DATA, up to the header of the loop that applies
FetchData ==
    /\ pc = "fetch"
    /\ \E fetched \in FetchedLists(MaxDashboards) :
          dashboards' = Processed(config, fetched)
    /\ pc' = "process"
    /\ UNCHANGED <<results, calls, tests>>
    /\ UnchangedByMain

\* results.append(process_dashboard(...)), main.py:141 and main.py:155
ProcessDashboard ==
    /\ pc = "process"
    /\ Len(results) < Len(dashboards)
    /\ LET d == dashboards[Len(results) + 1]
       IN  IF EvaluationRaises(d)
           THEN /\ pc' = "raised"
                /\ results' = results
           ELSE /\ pc' = "process"
                /\ \E outcome \in ServiceAnswers(ai_enabled) :
                      results' = Append(results, process_dashboard(d, outcome))
    /\ UNCHANGED <<dashboards, calls, tests>>
    /\ UnchangedByMain

\* 2.-4. the report is logged, sent to Slack when SLACK_WEBHOOK_URL is set
\* and mailed when SMTP_HOST is set; neither notifier raises
SendAlerts ==
    /\ pc = "process"
    /\ Len(results) = Len(dashboards)
    /\ \E slack \in NotifierOutcomes, mail \in NotifierOutcomes :
          calls' = (IF config.slack_url
                    THEN <<SinkCall("slack.send_blocks", "results", slack)>> ELSE <<>>)
                   \o (IF config.smtp_host
                       THEN <<SinkCall("emailer.send_report", "results", mail)>> ELSE <<>>)
    /\ pc' = "jira"
    /\ UNCHANGED <<dashboards, results, tests>>
    /\ UnchangedByMain

\* 5. issue_url = jira.create_issue(d["dashboard"], d["issues"]), and the
\* Slack text when a ticket was created
CreateIssue ==
    /\ pc = "jira"
    /\ Offered < Len(results)
    /\ LET d == results[Offered + 1]
       IN  \E outcome \in JiraOutcomes(config.jira_enabled), text \in NotifierOutcomes :
              /\ calls' = Append(calls, SinkCall("jira.create_issue", d.dashboard, outcome))
                          \o (IF outcome = "created" /\ config.slack_url
                              THEN <<SinkCall("slack.send_text", d.dashboard, text)>>
                              ELSE <<>>)
              /\ pc' = IF outcome = "raised" THEN "raised" ELSE "jira"
    /\ UNCHANGED <<dashboards, results, tests>>
    /\ UnchangedByMain

\* 6. tests = test_builder.build_tests(results)
GenerateTests ==
    /\ pc = "jira"
    /\ Offered = Len(results)
    /\ tests' = build_tests(results)
    /\ pc' = "complete"
    /\ UNCHANGED <<dashboards, results, calls>>
    /\ UnchangedByMain

NextMain == FetchData \/ ProcessDashboard \/ SendAlerts \/ CreateIssue \/ GenerateTests

SpecMain == InitMain /\ [][NextMain]_vars

---------------------------------------------------------------------------
(* Claims                                                                  *)

Returned == pc \in {"done", "tests"}

\* C1: for every issue list calculate_score returns an integer in [0,100],
\* and exactly 100 for the empty list.
C1_ScoreInRange ==
    Returned =>
        /\ entry.score \in 0..100
        /\ (entry.issues = <<>> => entry.score = 100)

\* the deductions add up to more than 100 and the score is clamped to 0
C1_Witness ==
    /\ pc = "done"
    /\ ScoreLoop(entry.issues, 100) < 0
    /\ entry.score = 0

\* the deduction the score table of section 4.5 gives an issue string
C2_Bucket(lowered) ==
    IF \E kw \in {"spike", "drop", "outlier"} : Contains(kw, lowered) THEN 25
    ELSE IF \E kw \in {"null", "zero", "negative"} : Contains(kw, lowered) THEN 15
    ELSE IF Contains("no variation", lowered) THEN 5
    ELSE 0

C2_BucketOf == [s \in KnownIssueNames |-> C2_Bucket(Lower(s))]

C2_Total(iss) == Sum([i \in 1..Len(iss) |-> C2_BucketOf[Get(iss[i], "issue", "")]])

\* C2: the score is max(0, 100 - sum of d(issue)), d being the deduction of
\* the first matching bucket (25, else 15, else 5, else 0), one per issue.
C2_ScoreFormula ==
    Returned =>
        entry.score = (IF 100 - C2_Total(entry.issues) > 0
                       THEN 100 - C2_Total(entry.issues) ELSE 0)

\* an issue string of two buckets ("null" and "spike") is charged 25, once
C2_Witness ==
    /\ pc = "done"
    /\ Len(entry.issues) = 1
    /\ Get(entry.issues[1], "issue", "") = "NULL SPIKE"
    /\ entry.score = 75

---------------------------------------------------------------------------
(* Helpers of the claims below                                             *)

\* the issues of a list raised for one metric, and the issue strings of a list
IssuesFor(list, name) == SelectSeq(list, LAMBDA i : i.metric = name)
Names(list) == [i \in 1..Len(list) |-> list[i].issue]

If(cond, name) == IF cond THEN <<name>> ELSE <<>>

Count(S) == Cardinality(S)

\* the engines have all returned
EnginesDone == pc = "combine"

\* C3: for a constant non-null numeric series of length >= 2, whatever the
\* constant, check emits 'No variation' and detect emits no spike, drop or
\* outlier issue.
C3_IsConstant(values) ==
    /\ Len(values) >= 2
    /\ \A i \in 1..Len(values) : IsNumber(values[i]) /\ values[i] = values[1]

C3_ConstantSeriesQuiet ==
    EnginesDone =>
        \A k \in 1..Len(metrics) :
            C3_IsConstant(metrics[k].values) =>
                /\ \E i \in 1..Len(rule_issues) :
                      /\ rule_issues[i].metric = metrics[k].name
                      /\ rule_issues[i].issue = "No variation"
                /\ \A i \in 1..Len(anomaly_issues) :
                      anomaly_issues[i].metric = metrics[k].name =>
                          anomaly_issues[i].issue \notin
                              {"Sudden spike detected", "Sudden drop detected",
                               "Outlier detected"}

\* what the four rules of section 4.1 give for one series
C6_Expected(values) ==
    LET nums == NumericValues(values)
        n == Len(nums)
    IN  If(\E i \in 1..Len(values) : values[i] = None \/ values[i] = Num(0),
           "Null / Zero values")
        \o If(n >= 2 /\ \A i, j \in 1..n : nums[i] = nums[j], "No variation")
        \o If(\E i \in 1..Len(values) : values[i] # None /\ values[i].n < 0,
              "Negative values")
        \o If(n >= 1 /\ \E i \in 1..n : n * nums[i] > 5 * Sum(nums),
              "Extremely large value detected")

C7_Expected(values) ==
    LET nums == NumericValues(values)
        n == Len(nums)
        s == Sum(nums)
        last == nums[n]
        dev2 == Sum([i \in 1..n |-> (n * nums[i] - s) * (n * nums[i] - s)])
    IN  IF n < 2 THEN <<>>
        ELSE If(n * last > 3 * s, "Sudden spike detected")
             \o If(10 * n * last < 3 * s, "Sudden drop detected")
             \o If(dev2 > 0 /\ n * (n * last - s) * (n * last - s) > 4 * dev2,
                   "Outlier detected")

C8_HasEntry(name) ==
    expected_ranges.given /\ name \in Keys(expected_ranges.items)

\* the raw value is not a number / is flagged by the range (lo, hi)
C8_NonNumeric(v) == v.t # "int"
C8_Flagged(v, range) == C8_NonNumeric(v) \/ v.n < range[1] \/ v.n > range[2]

C8_Kind(list, name, kind) ==
    SelectSeq(list, LAMBDA i : i.metric = name /\ i.issue = kind)

C9_ValueLevel(issue) == issue.issue \in {"Non-numeric value", "Out-of-range values"}
C9_Value(issue) == issue.details[2]
C9_Positions(values, v) == {p \in 1..Len(values) : values[p] = v}

\* C9 as claimed: within one metric every issue raised for an earlier raw
\* value comes before every issue raised for a later raw value.  (An issue
\* is found out of place when the value it quotes occurs only after every
\* occurrence of the value quoted by an issue that follows it.)
C9_RawValueOrder ==
    EnginesDone =>
        \A k \in 1..Len(metrics) :
            LET mine == SelectSeq(IssuesFor(validation_issues, metrics[k].name), C9_ValueLevel)
                values == metrics[k].values
            IN  \A i, j \in 1..Len(mine) :
                    i < j =>
                        ~ \A p \in C9_Positions(values, C9_Value(mine[i])),
                             q \in C9_Positions(values, C9_Value(mine[j])) : p > q

C9_Rank(issue) ==
    CASE issue.issue = "Non-numeric value" -> 1
      [] issue.issue = "Out-of-range values" -> 2
      [] OTHER -> 3

C9_Values(list) == [i \in 1..Len(list) |-> C9_Value(list[i])]

C9_FlaggedBy(name, v) ==
    C8_HasEntry(name) /\ C8_Flagged(v, Lookup(expected_ranges.items, name).range)

\* C9 as amended: within one metric the validator's issues are grouped by
\* rule ('Non-numeric value', then 'Out-of-range values', then 'Insufficient
\* data points'), and within each rule they follow the order of the raw values.
C9_RuleThenValueOrder ==
    EnginesDone =>
        \A k \in 1..Len(metrics) :
            LET name == metrics[k].name
                values == metrics[k].values
                mine == IssuesFor(validation_issues, name)
            IN  /\ \A i, j \in 1..Len(mine) : i < j => C9_Rank(mine[i]) <= C9_Rank(mine[j])
                /\ C9_Values(C8_Kind(validation_issues, name, "Non-numeric value"))
                     = SelectSeq(values, C8_NonNumeric)
                /\ C9_Values(C8_Kind(validation_issues, name, "Out-of-range values"))
                     = SelectSeq(values, LAMBDA v : C9_FlaggedBy(name, v))

\* an out-of-range number followed by a null: the null's 'Non-numeric value'
\* issue comes first
C9_Witness ==
    /\ EnginesDone
    /\ Len(metrics) = 1
    /\ metrics[1].values = <<Num(-1), None>>
    /\ Names(validation_issues) = <<"Non-numeric value", "Out-of-range values",
                                    "Out-of-range values", "Insufficient data points">>
    /\ C9_Values(SubSeq(validation_issues, 1, 3)) = <<None, Num(-1), None>>

\* an issue as the engines returned it, before the analyzer annotated it
WithoutInsight(issue) == [k \in DOMAIN issue \ {"ai_insight"} |-> issue[k]]

\* the position of a metric in the metrics mapping
MetricIndex(name) == CHOOSE k \in 1..Len(metrics) : metrics[k].name = name

C4_MetricOrder(list) ==
    \A i, j \in 1..Len(list) :
        i < j => MetricIndex(list[i].metric) <= MetricIndex(list[j].metric)

\* C4: the issues of the entry process_dashboard returns are the Rule
\* Engine's issues, then the Anomaly Engine's, then the Range Validator's,
\* none dropped, deduplicated or reordered, and each engine's issues follow
\* the order of the metrics mapping.
C4_IssueOrder ==
    pc = "done" =>
        /\ [i \in 1..Len(entry.issues) |-> WithoutInsight(entry.issues[i])]
             = rule_issues \o anomaly_issues \o validation_issues
        /\ C4_MetricOrder(rule_issues)
        /\ C4_MetricOrder(anomaly_issues)
        /\ C4_MetricOrder(validation_issues)

\* two metrics, each with issues from all three engines
C4_Witness ==
    /\ pc = "done"
    /\ Len(metrics) = 2
    /\ \A k \in 1..2 :
          /\ IssuesFor(rule_issues, metrics[k].name) # <<>>
          /\ IssuesFor(anomaly_issues, metrics[k].name) # <<>>
          /\ IssuesFor(validation_issues, metrics[k].name) # <<>>

\* the arguments an engine reads: validate alone takes expected_ranges
C5_SameArguments(c1, c2) ==
    /\ c1.engine = c2.engine
    /\ c1.metrics = c2.metrics
    /\ (c1.engine = "validate" => c1.expected_ranges = c2.expected_ranges)

C10_Class(lowered) ==
    IF Contains("spike", lowered) THEN "spike"
    ELSE IF Contains("drop", lowered) THEN "drop"
    ELSE IF Contains("null", lowered) \/ Contains("zero", lowered) THEN "null/zero"
    ELSE IF Contains("negative", lowered) THEN "negative"
    ELSE IF Contains("no variation", lowered) THEN "no variation"
    ELSE "generic"

C10_Assertion(class) ==
    CASE class = "spike" -> "assert last_value <= mean * 3"
      [] class = "drop" -> "assert last_value >= mean * 0.3"
      [] class = "null/zero" -> "assert all(v not in [None, 0] for v in values)"
      [] class = "negative" -> "assert all(v >= 0 for v in values)"
      [] class = "no variation" -> "assert len(set(values)) > 1"
      [] OTHER -> "assert False, 'Unexpected data quality issue detected.'"

C10_AssertionOf == [s \in KnownIssueNames |-> C10_Assertion(C10_Class(Lower(s)))]

\* where the first line of a generated function ends: the first ":\n" at or
\* after position i
RECURSIVE C10_FirstColon(_, _)
C10_FirstColon(code, i) ==
    IF i >= Len(code) \/ SubSeq(code, i, i + 1) = ":\n" THEN i
    ELSE C10_FirstColon(code, i + 1)

\* the body of a generated function: what follows the first line of its code
C10_Body(code) == SubSeq(code, C10_FirstColon(code, 1) + 2, Len(code))

\* C10: build_tests generates one function per issue, whose body is the
\* assertion of the first class its lower-cased issue string matches, in the
\* order spike, drop, null or zero, negative, no variation; any other issue
\* ('Outlier detected' too) gets an assertion that always fails.
C10_GeneratedAssertions ==
    pc = "tests" =>
        /\ Len(test_code) = Len(entry.issues)
        /\ \A i \in 1..Len(test_code) :
              C10_Body(test_code[i])
                = "    " \o C10_AssertionOf[Get(entry.issues[i], "issue", "")] \o "\n"

\* an issue that matches both null and spike, and an outlier
C10_Witness ==
    /\ pc = "tests"
    /\ Len(entry.issues) = 2
    /\ Get(entry.issues[1], "issue", "") = "NULL SPIKE"
    /\ Get(entry.issues[2], "issue", "") = "Outlier detected"
    /\ C10_Body(test_code[1]) = "    assert last_value <= mean * 3\n"
    /\ C10_Body(test_code[2])
         = "    assert False, 'Unexpected data quality issue detected.'\n"

\* C11: build_tests generates one function per issue, joined in issue order
\* into the dashboard's suite, and no two issues of one dashboard get the
\* same generated function (same name and body).
C11_OneDistinctFunctionPerIssue ==
    pc = "tests" =>
        /\ Len(test_code) = Len(entry.issues)
        /\ tests = <<[name |-> entry.dashboard, code |-> Join("\n", test_code)]>>
        /\ \A i, j \in 1..Len(test_code) : i < j => test_code[i] # test_code[j]

\* the name the claim gives: lower-cased, spaces replaced by underscores
C12_SafeOf == [s \in KnownNames |-> Replace(Lower(s), " ", "_")]

C12_Suffix(class) ==
    CASE class = "spike" -> "_no_spike"
      [] class = "drop" -> "_no_drop"
      [] class = "null/zero" -> "_no_nulls"
      [] class = "negative" -> "_no_negative_values"
      [] class = "no variation" -> "_variation_exists"
      [] OTHER -> "_generic_quality_check"

C12_SuffixOf == [s \in KnownIssueNames |-> C12_Suffix(C10_Class(Lower(s)))]

\* the first line of a generated function
C12_FirstLine(code) == SubSeq(code, 1, C10_FirstColon(code, 1))

\* C12: the generated function is named 'test_' + the lower-cased dashboard
\* with spaces replaced by '_' + '_' + the lower-cased metric with spaces
\* replaced by '_' + the suffix of the check kind; 'Sudden drop detected'
\* for SiteVisits on Marketing Performance gives
\* test_marketing_performance_sitevisits_no_drop asserting
\* last_value >= mean * 0.3.
C12_TestNames ==
    pc = "tests" =>
        \A i \in 1..Len(test_code) :
            LET issue == entry.issues[i]
            IN  /\ C12_FirstLine(test_code[i])
                     = "def test_" \o C12_SafeOf[entry.dashboard] \o "_"
                       \o C12_SafeOf[issue.metric] \o C12_SuffixOf[issue.issue] \o "():"
                /\ (/\ entry.dashboard = "Marketing Performance"
                    /\ issue.metric = "SiteVisits"
                    /\ issue.issue = "Sudden drop detected")
                   => test_code[i]
                        = "def test_marketing_performance_sitevisits_no_drop():\n"
                          \o "    assert last_value >= mean * 0.3\n"

\* the mock Marketing Performance dashboard, whose SiteVisits drop to 0
C12_Witness ==
    /\ pc = "tests"
    /\ entry.dashboard = "Marketing Performance"
    /\ \E i \in 1..Len(test_code) :
          /\ entry.issues[i].metric = "SiteVisits"
          /\ entry.issues[i].issue = "Sudden drop detected"
          /\ C12_FirstLine(test_code[i])
               = "def test_marketing_performance_sitevisits_no_drop():"

C13_Revenue == <<Num(1000), Num(1050), Num(1020), Num(5200)>>

\* C13: for Revenue = [1000, 1050, 1020, 5200] the Rule Engine and the
\* Anomaly Engine emit no issue for Revenue: no extreme spike, no spike, no
\* drop, and no outlier.
C13_RevenueQuiet ==
    pc \in {"validate", "combine"} =>
        \A k \in 1..Len(metrics) :
            (metrics[k].name = "Revenue" /\ metrics[k].values = C13_Revenue) =>
                /\ IssuesFor(rule_issues, "Revenue") = <<>>
                /\ IssuesFor(anomaly_issues, "Revenue") = <<>>

\* the dashboard whose only metric is Revenue, after both engines ran
C13_Witness ==
    /\ pc = "combine"
    /\ metrics = <<Metric("Revenue", C13_Revenue)>>
    /\ rule_issues = <<>>
    /\ anomaly_issues = <<>>

\* the validator's issues of one kind that quote a null value of the metric
C14_ForNull(name, kind) ==
    SelectSeq(validation_issues,
              LAMBDA i : i.metric = name /\ i.issue = kind /\ i.details[2] = None)

C14_Orders == <<Num(82), Num(80), Num(81), None>>

C15_Margin == <<Metric("Margin", <<Num(25), Num(25), Num(25), Num(25)>>)>>

\* no expected range for Margin, or one that contains 25
C15_RangeAllows25 ==
    C8_HasEntry("Margin") =>
        LET range == Lookup(expected_ranges.items, "Margin").range
        IN  range[1] <= 25 /\ 25 <= range[2]

\* C15: for the dashboard whose only metric is Margin = [25, 25, 25, 25],
\* with no expected range or one containing 25, process_dashboard returns
\* exactly one issue, the Rule Engine's 'No variation', and score 95.
C15_MarginScenario ==
    (Returned /\ metrics = C15_Margin /\ C15_RangeAllows25) =>
        /\ Len(entry.issues) = 1
        /\ entry.issues[1].metric = "Margin"
        /\ entry.issues[1].issue = "No variation"
        /\ Names(rule_issues) = <<"No variation">>
        /\ anomaly_issues = <<>>
        /\ validation_issues = <<>>
        /\ entry.score = 95

\* the Margin dashboard with its range (10, 50), returned
C15_Witness ==
    /\ pc = "done"
    /\ metrics = C15_Margin
    /\ C8_HasEntry("Margin")
    /\ Len(entry.issues) = 1
    /\ entry.score = 95

C16_ValidatorKinds ==
    {"Non-numeric value", "Out-of-range values", "Insufficient data points"}

C16_Sentinel == "    assert False, 'Unexpected data quality issue detected.'\n"

C16_Conversions == <<Metric("Conversions", <<Num(5), Num(7), Num(-2), Num(8)>>)>>

\* C16: the Range Validator's three issue kinds match no scoring bucket, so
\* the score is the one the Rule and Anomaly Engines' issues alone give, and
\* each compiles to the always-failing test; Conversions = [5, 7, -2, 8]
\* with range (0, 50) yields 'Negative values' and one 'Out-of-range
\* values' for -2, score 85.
C16_ValidatorIssuesUnscored ==
    Returned =>
        /\ \A i \in 1..Len(validation_issues) :
              /\ validation_issues[i].issue \in C16_ValidatorKinds
              /\ C2_BucketOf[validation_issues[i].issue] = 0
        /\ LET total == C2_Total(rule_issues \o anomaly_issues)
           IN  entry.score = (IF 100 - total > 0 THEN 100 - total ELSE 0)
        /\ pc = "tests" =>
              \A i \in 1..Len(test_code) :
                  entry.issues[i].issue \in C16_ValidatorKinds
                      => C10_Body(test_code[i]) = C16_Sentinel
        /\ (/\ metrics = C16_Conversions
            /\ C8_HasEntry("Conversions")
            /\ Lookup(expected_ranges.items, "Conversions").range = <<0, 50>>)
           => /\ Names(entry.issues) = <<"Negative values", "Out-of-range values">>
              /\ Names(rule_issues) = <<"Negative values">>
              /\ Names(validation_issues) = <<"Out-of-range values">>
              /\ C9_Value(validation_issues[1]) = Num(-2)
              /\ entry.score = 85

\* the Conversions dashboard scored and compiled
C16_Witness ==
    /\ pc = "tests"
    /\ metrics = C16_Conversions
    /\ entry.score = 85
    /\ Len(test_code) = 2
    /\ C10_Body(test_code[2]) = C16_Sentinel

\* C17: for a dashboard whose metrics mapping is missing or empty,
\* process_dashboard does not fail and returns an entry with an empty issue
\* list and score 100.
C17_NoMetricsNoFailure ==
    (~metrics_given \/ metrics = <<>>) =>
        /\ pc # "raised"
        /\ Returned => (entry.issues = <<>> /\ entry.score = 100)

\* the fallback text of an issue: the metric followed by the sentence of the
\* first kind its lower-cased issue string contains
C18_Sentence(lowered) ==
    IF Contains("spike", lowered)
    THEN " shows an unexpected spike - likely caused by duplicated rows or incorrect aggregation."
    ELSE IF Contains("drop", lowered)
    THEN " dropped sharply - may indicate missing data or broken upstream pipeline."
    ELSE IF Contains("null", lowered) \/ Contains("zero", lowered)
    THEN " contains null/zero values - check ETL validity or missing joins."
    ELSE IF Contains("no variation", lowered)
    THEN " shows no variation - check if data refresh is working."
    ELSE IF Contains("negative", lowered)
    THEN " contains negative values - likely a logical or transformation error."
    ELSE ""

C18_SentenceOf == [s \in KnownIssueNames |-> C18_Sentence(Lower(s))]

C18_Fallback(issue) ==
    IF C18_SentenceOf[issue.issue] = ""
    THEN "Potential data quality issue detected. Investigate upstream data sources."
    ELSE issue.metric \o C18_SentenceOf[issue.issue]

Annotated == pc \in {"score", "done", "tests"}

\* C18: after analyze_all every issue carries a non-empty ai_insight, and
\* where AI mode is disabled, the external call raised or it returned an
\* empty result, the insight is the rule-based fallback text of the issue.
C18_FallbackInsight ==
    Annotated =>
        /\ Len(calls) = Len(entry.issues)
        /\ \A i \in 1..Len(entry.issues) :
              LET issue == entry.issues[i]
              IN  /\ "ai_insight" \in DOMAIN issue
                  /\ issue.ai_insight # ""
                  /\ calls[i].result \in {"not called", "raise", "empty"}
                         => issue.ai_insight = C18_Fallback(issue)
                  /\ ~ai_enabled => calls[i].result = "not called"

\* AI mode enabled, the call raising for one issue and answering blank text
\* for the next
C18_Witness ==
    /\ pc = "done"
    /\ ai_enabled
    /\ Len(entry.issues) >= 2
    /\ calls[1].result = "raise"
    /\ calls[2].result = "empty"
    /\ entry.issues[1].ai_insight = C18_Fallback(entry.issues[1])
    /\ entry.issues[2].ai_insight = C18_Fallback(entry.issues[2])

\* C19: annotation only adds ai_insight in place: after analyze_all, after
\* scoring and after build_tests the entry's issue list has the length and
\* order of the aggregated list, every issue keeps its metric, issue and
\* details and gains ai_insight alone, and the list is the one that was
\* aggregated.
C19_OnlyInsightAdded ==
    Annotated =>
        LET aggregated == rule_issues \o anomaly_issues \o validation_issues
        IN  /\ Len(entry.issues) = Len(aggregated)
            /\ all_issues = entry.issues
            /\ \A i \in 1..Len(aggregated) :
                  /\ DOMAIN entry.issues[i] = DOMAIN aggregated[i] \cup {"ai_insight"}
                  /\ entry.issues[i].metric = aggregated[i].metric
                  /\ entry.issues[i].issue = aggregated[i].issue
                  /\ entry.issues[i].details = aggregated[i].details

\* issues of all three engines, annotated by the service and scored
C19_Witness ==
    /\ pc = "done"
    /\ rule_issues # <<>>
    /\ anomaly_issues # <<>>
    /\ validation_issues # <<>>
    /\ calls[1].result = "text"
    /\ entry.issues[1].ai_insight # ""
    /\ entry.issues[1].details = rule_issues[1].details

\* how often an issue string occurs in a list
C20_Occurrences(iss, s) ==
    Count({i \in 1..Len(iss) : Get(iss[i], "issue", "") = s})

RECURSIVE C20_BagTotal(_, _)
C20_BagTotal(iss, names) ==
    IF names = {} THEN 0
    ELSE LET s == CHOOSE x \in names : TRUE
         IN  C20_Occurrences(iss, s) * C2_BucketOf[s] + C20_BagTotal(iss, names \ {s})

\* the list with two of its issues exchanged
C20_Swap(iss, i, j) ==
    [k \in 1..Len(iss) |-> IF k = i THEN iss[j] ELSE IF k = j THEN iss[i] ELSE iss[k]]

\* the list with every metric, details and ai_insight changed
C20_Renamed(iss) ==
    [k \in 1..Len(iss) |->
        [f \in DOMAIN iss[k] \cup {"ai_insight"} |->
            CASE f = "metric" -> "Revenue"
              [] f = "details" -> <<"other details">>
              [] f = "ai_insight" -> "other insight"
              [] OTHER -> iss[k][f]]]

\* C20: the score depends only on the multiset of issue strings: it is
\* max(0, 100 - the sum over the strings of occurrences * deduction), and
\* exchanging two issues of the list, or changing the metric, details and
\* ai_insight of its issues, gives the same score.  (The lists of up to
\* MaxIssues issues are all there, so exchanges of two issues reach every
\* permutation of them.)
C20_ScoreOfMultiset ==
    Returned =>
        LET iss == entry.issues
            total == C20_BagTotal(iss, {Get(iss[i], "issue", "") : i \in 1..Len(iss)})
        IN  /\ entry.score = (IF 100 - total > 0 THEN 100 - total ELSE 0)
            /\ Len(iss) <= MaxIssues =>
                  \A i, j \in 1..Len(iss) :
                      i < j => calculate_score(C20_Swap(iss, i, j)) = entry.score
            /\ calculate_score(C20_Renamed(iss)) = entry.score

\* issues of two metrics with different deductions, one string twice,
\* not next to each other
C20_Witness ==
    /\ pc = "done"
    /\ Len(entry.issues) = 3
    /\ entry.issues[1] = Issue("Site Visits", "No variation", <<"details">>)
    /\ entry.issues[2] = Issue("cost", "Sudden drop detected", <<"details">>)
    /\ entry.issues[3] = entry.issues[1]
    /\ entry.score = 65

\* the position, in dashboards, of the dashboard whose evaluation or ticket
\* raised
FailedAt == IF Len(results) < Len(dashboards) THEN Len(results) + 1 ELSE Offered

Evaluated(name) == \E k \in 1..Len(results) : results[k].dashboard = name

OfferedToJira(name) ==
    \E k \in 1..Len(calls) :
        calls[k].engine = "jira.create_issue" /\ calls[k].arg = name

InTests(name) == name \in Keys(tests)

\* C21: when the evaluation of one dashboard, or the filing of its ticket,
\* raises, every other dashboard of the run is still evaluated, offered to
\* the ticket exporter and included in the generated tests.
C21_DashboardIsolation ==
    pc = "raised" =>
        \A i \in 1..Len(dashboards) :
            dashboards[i].dashboard # dashboards[FailedAt].dashboard =>
                /\ Evaluated(dashboards[i].dashboard)
                /\ OfferedToJira(dashboards[i].dashboard)
                /\ InTests(dashboards[i].dashboard)

\* C22: no step of process_dashboard, and not build_tests, changes the
\* metrics mapping, any series of it, or the expected_ranges mapping.
C22_InputsUnchanged ==
    [][/\ metrics' = metrics
       /\ metrics_given' = metrics_given
       /\ expected_ranges' = expected_ranges]_vars

\* the whole pipeline has run on a series holding a null, under a range, and
\* every engine has reported something
C22_Witness ==
    /\ pc = "tests"
    /\ tests # <<>>
    /\ expected_ranges.given
    /\ \E i \in 1..Len(metrics) : \E j \in 1..Len(metrics[i].values) :
          metrics[i].values[j] = None
    /\ rule_issues # <<>>
    /\ validation_issues # <<>>

\* the entry with another annotation, other details and another score
C23_Reannotated(e) ==
    [dashboard |-> e.dashboard,
     score |-> 0,
     issues |-> [k \in 1..Len(e.issues) |->
                    [f \in DOMAIN e.issues[k] |->
                        CASE f = "details" -> <<"other details">>
                          [] f = "ai_insight" -> "other insight"
                          [] OTHER -> e.issues[k][f]]]]

\* the entry before annotation and scoring: the aggregated issue list
C23_Aggregated(e) ==
    [dashboard |-> e.dashboard,
     issues |-> rule_issues \o anomaly_issues \o validation_issues]

\* C23: build_tests reads only the dashboard name and each issue's metric and
\* issue fields: report lists that differ in ai_insight, details or score
\* only (among them the list before annotation and scoring) compile to the
\* same tests.
C23_TestsBypassAnnotation ==
    pc = "tests" =>
        /\ build_tests(<<C23_Reannotated(entry)>>) = tests
        /\ build_tests(<<C23_Aggregated(entry)>>) = tests

\* tests compiled from an entry whose issues carry a service-written insight
\* and whose score is below 100
C23_Witness ==
    /\ pc = "tests"
    /\ Len(entry.issues) >= 2
    /\ entry.score < 100
    /\ \E k \in 1..Len(entry.issues) :
          entry.issues[k].ai_insight = "Check the upstream join for duplicated rows."
    /\ C23_Reannotated(entry) # entry

\* the statistical issues of the two engines
C24_Statistical(list, name) ==
    {i \in 1..Len(list) :
        /\ list[i].metric = name
        /\ list[i].issue \in {"No variation", "Extremely large value detected",
                              "Sudden spike detected", "Sudden drop detected",
                              "Outlier detected"}}

C25_MockFallback ==
    pc \in {"jira", "complete"} /\ config.USE_TABLEAU_API
        /\ (~config.rest_enabled \/ dashboards = <<>>) =>
            /\ results # <<>>
            /\ \A i \in 1..Len(MOCK_DASHBOARDS) :
                  Evaluated(MOCK_DASHBOARDS[i].dashboard)

\* C26: detect emits 'Outlier detected' for no metric with five numeric
\* values or fewer, whatever the values (as real numbers |last - mean| is at
\* most sqrt(n - 1) * stdev, which exceeds 2 * stdev only from n = 6 on).
C26_NoOutlierUpToFive ==
    pc \in {"validate", "combine"} =>
        \A k \in 1..Len(metrics) :
            Len(NumericValues(metrics[k].values)) <= 5 =>
                "Outlier detected"
                    \notin SetOf(Names(IssuesFor(anomaly_issues, metrics[k].name)))

\* C27: for a metric whose numeric values are all >= 0, the rule engine
\* does not report 'Extremely large value detected' when the numeric subset
\* has 5 or fewer elements, and the anomaly engine does not report 'Sudden
\* spike detected' when it has 3 or fewer.
C27_NumericCount(values) ==
    Cardinality({i \in 1..Len(values) : values[i] # None})

C27_NonNegative(values) ==
    \A i \in 1..Len(values) :
       values[i].t = "int" => values[i].n >= 0

C27_Reported(issues, metric_name, name) ==
    \E i \in 1..Len(issues) :
       issues[i].metric = metric_name /\ issues[i].issue = name

C27_SmallSeriesNeverSpike ==
    \A i \in 1..Len(metrics) :
       C27_NonNegative(metrics[i].values) =>
          /\ (pc # "rules" /\ C27_NumericCount(metrics[i].values) <= 5)
                => ~C27_Reported(rule_issues, metrics[i].name,
                                 "Extremely large value detected")
          /\ (pc \notin {"rules", "anomaly"} /\ C27_NumericCount(metrics[i].values) <= 3)
                => ~C27_Reported(anomaly_issues, metrics[i].name,
                                 "Sudden spike detected")

\* C28: for a metric whose numeric subset has a negative mean, check emits
\* 'Extremely large value detected', whatever the spread of the values.
C28_NegativeMean(values) ==
    /\ NumericValues(values) # <<>>
    /\ Sum(NumericValues(values)) < 0

C29_IsExtreme(issue) ==
    Get(issue, "issue", "") = "Extremely large value detected"

C29_Generic(dash, issue) ==
    "def test_" \o Safe(dash) \o "_" \o Safe(issue.metric)
    \o "_generic_quality_check():\n"
    \o "    assert False, 'Unexpected data quality issue detected.'\n"

RECURSIVE C29_Charged(_)
C29_Charged(iss) ==
    IF iss = <<>> THEN 0
    ELSE C29_Charged(Tail(iss))
         + (IF \E kw \in {"spike", "drop", "outlier"} : IssueHas(Head(iss), kw) THEN 25
            ELSE IF \E kw \in {"null", "zero", "negative"} : IssueHas(Head(iss), kw) THEN 15
            ELSE IF IssueHas(Head(iss), "no variation") THEN 5
            ELSE 0)

C29_ExtremeIsUnscored ==
    /\ KeywordsOf["Extremely large value detected"] = {}
    /\ (pc \notin {"rules", "raised"}) =>
          \A k \in 1..Len(metrics) :
             HasExtremeSpike(metrics[k].values) <=>
                \E i \in 1..Len(rule_issues) :
                   rule_issues[i].metric = metrics[k].name /\ C29_IsExtreme(rule_issues[i])
    /\ (pc \in {"done", "tests"}) =>
          LET others == SelectSeq(entry.issues, LAMBDA i : ~C29_IsExtreme(i))
          IN  /\ entry.score = (IF C29_Charged(others) < 100 THEN 100 - C29_Charged(others) ELSE 0)
              /\ (others = <<>> => entry.score = 100)
    /\ (pc = "tests") =>
          \A i \in 1..Len(entry.issues) :
             C29_IsExtreme(entry.issues[i]) =>
                test_code[i] = C29_Generic(entry.dashboard, entry.issues[i])

\* a dashboard with extreme-spike issues and no others has been scored 100
\* and its tests generated
C29_Witness ==
    /\ pc = "tests"
    /\ Len(entry.issues) > 1
    /\ \A i \in 1..Len(entry.issues) : C29_IsExtreme(entry.issues[i])
    /\ \A i \in 1..Len(entry.issues) :
          \E j \in 1..Len(rule_issues) : rule_issues[j].metric = entry.issues[i].metric
    /\ entry.score = 100

\* The assertion of a generated function evaluated with values = the raw
\* series, last_value = its last element and mean = the arithmetic mean of
\* its numeric values.  A comparison of None with a number raises TypeError.

\* all(v >= 0 for v in values): the first value that is None or negative
\* ends the evaluation
AllNonNegative(values) ==
    LET stops == {i \in 1..Len(values) : values[i] = None \/ values[i].n < 0}
        first == CHOOSE i \in stops : \A j \in stops : i <= j
    IN  IF stops = {} THEN "passes"
        ELSE IF values[first] = None THEN "raises" ELSE "fails"

\* last_value <= mean * 3, last_value >= mean * 0.3
AgainstMean(values, spike) ==
    LET numeric_values == NumericValues(values)
        n == Len(numeric_values)
        last_value == values[Len(values)]
    IN  IF values = <<>> \/ n = 0 \/ last_value = None THEN "raises"
        ELSE IF spike
        THEN (IF last_value.n * n <= Sum(numeric_values) * 3 THEN "passes" ELSE "fails")
        ELSE (IF last_value.n * n * 10 >= Sum(numeric_values) * 3 THEN "passes" ELSE "fails")

AssertionOutcome(body, values) ==
    CASE body = "    assert last_value <= mean * 3\n" -> AgainstMean(values, TRUE)
      [] body = "    assert last_value >= mean * 0.3\n" -> AgainstMean(values, FALSE)
      [] body = "    assert all(v not in [None, 0] for v in values)\n" ->
            IF \E i \in 1..Len(values) : values[i] = None \/ values[i].n = 0
            THEN "fails" ELSE "passes"
      [] body = "    assert all(v >= 0 for v in values)\n" -> AllNonNegative(values)
      [] body = "    assert len(set(values)) > 1\n" ->
            IF Cardinality(SetOf(values)) > 1 THEN "passes" ELSE "fails"
      [] OTHER -> "fails"

C30_Kinds ==
    { "Sudden spike detected", "Sudden drop detected", "Null / Zero values",
      "Negative values", "No variation" }

\* the issues of the rule and anomaly engines come first in the entry
C30_FromEngines(i) == i <= Len(rule_issues) + Len(anomaly_issues)

\* C30: for every spike, drop, null/zero, negative or no-variation issue
\* that the rule or anomaly engine emits for a series, the assertion that
\* build_tests generates for the issue does not pass on that series, series
\* with nulls included.
C30_TestsEncodeChecks ==
    pc = "tests" =>
        \A i \in 1..Len(entry.issues) :
           (C30_FromEngines(i) /\ entry.issues[i].issue \in C30_Kinds) =>
              AssertionOutcome(C10_Body(test_code[i]),
                               Lookup(metrics, entry.issues[i].metric).values)
                 # "passes"

===========================================================================
